---------------------------- MODULE Spec2Model ----------------------------
(***************************************************************************)
(* Countries & cities scraper: the run orchestration of                    *)
(* scrape_countries_cities_main, the two upserts into the relational       *)
(* store and the dated snapshot artifact.                                  *)
(*                                                                         *)
(* Environment faults that are inputs of the model: exceptions of page     *)
(* operations (with or without a session-loss signature in their text),    *)
(* exceptions of browser.close() and of launch_browser(), exceptions of    *)
(* database statements and of the commit.  Calls on the snapshot file      *)
(* (open/write/unlink) are taken to succeed.                               *)
(***************************************************************************)
EXTENDS Integers, Sequences, FiniteSets, TLC

\* ------------------------------------------------------------------ bounds

\* longest list handed to one upsert call in SpecUpsert
MaxBatch == 2
\* number of upsert calls of one behaviour of SpecUpsert
MaxCalls == 3

\* ------------------------------------------------------------- value sets

\* Python None in a url field
NoUrl == "None"
Urls == {"url1", "url2"}
UrlOrNone == Urls \cup {NoUrl}
\* the name the country upsert skips
ExcludedName == "Israel"
CountryNames == {"Pakistan", "India", ExcludedName}
CityNames == {"Lahore"}

\* scraped {name, url} dictionaries
CountryEntries == [name : CountryNames, url : Urls]
CityEntries == [name : CityNames, url : Urls]

SeqsUpTo(S, n) == UNION {[1..k -> S] : k \in 0..n}

VARIABLES
    countries,    \* table countries: set of rows
    cities,       \* table cities: set of rows
    nextId,       \* next generated primary key (uuid4 modelled as a fresh number)
    clock,        \* datetime.utcnow(), advanced by every upsert call
    is_sqlite,    \* the engine is SQLite, which does not enforce foreign keys
    last,         \* record of the last upsert call (inputs, table before, counters)
    pc,                  \* position of scrape_countries_cities_main
    limit,               \* --limit: <<>> is None, <<n>> the integer n
    db_store,            \* --db-store
    files,               \* the snapshot directory: file |-> content
    browser,             \* the browser the variables browser/context/page refer to
    open_browsers,       \* the browsers launched and not closed
    launched,            \* number of browsers launched so far
    countries_data,      \* result of the country phase
    country_name_to_id,  \* result of the country upsert
    snapshot_data,       \* the list serialized into the artifact
    country_index,       \* position of the loop over countries_to_process
    attempt,             \* position of the retry loop of the current country
    snapshot_success,    \* the flag the finally block reads
    exit_code,           \* exit status of the process, read when pc = "done"
    failure,             \* what ended the run early: "none", "start", "empty", "country", "launch"
    pending_loss,        \* phase of a session-loss error not yet followed by a restart
    country_calls,       \* calls of scrape_countries in this run
    country_err,         \* kind of the exception raised inside the first scrape_countries
    city_calls,          \* calls of scrape_cities_for_country per processed country
    exhausted,           \* positions of the countries whose attempts all raised
    last_err,            \* kind of exception of the latest city attempt
    wrote,               \* an incremental snapshot write happened in this run
    GIT_PUSH_ENABLED,    \* settings.GIT_PUSH_ENABLED
    sync_calls,          \* calls of commit_and_push made by the run
    unclosed,            \* browsers whose close() raised and left them running
    delays,              \* the country_index values followed by the inter-country sleep
    task_runs,           \* table task_runs: set of committed rows
    threads,             \* per thread: its position in idempotent_once, its key
    body_log,            \* starts and ends of the guarded bodies, in order
    entries,             \* entries into idempotent_once made so far
    _scheduler,          \* the module global _scheduler of jobs/scheduler.py
    schedulers,          \* the schedulers created: jobs registered, started
    scheduler_calls      \* the calls of init_scheduler and get_scheduler, in order

idemVars == <<task_runs, threads, body_log, entries>>
schedVars == <<_scheduler, schedulers, scheduler_calls>>
jobVars == <<idemVars, schedVars>>
dbVars == <<countries, cities, nextId, clock, is_sqlite>>
runVars == <<pc, limit, db_store, files, browser, open_browsers, launched,
             countries_data, country_name_to_id, snapshot_data, country_index,
             attempt, snapshot_success, exit_code, failure, pending_loss,
             country_calls, country_err, city_calls, exhausted, last_err, wrote,
             GIT_PUSH_ENABLED, sync_calls, unclosed, delays>>
vars == <<countries, cities, nextId, clock, is_sqlite, last, pc, limit, db_store,
          files, browser, open_browsers, launched, countries_data,
          country_name_to_id, snapshot_data, country_index, attempt,
          snapshot_success, exit_code, failure, pending_loss, country_calls,
          country_err, city_calls, exhausted, last_err, wrote,
                   GIT_PUSH_ENABLED, sync_calls, unclosed, delays, jobVars>>

\* ---------------------------------------------------------------- helpers

EmptyMap == [x \in {} |-> 0]
MapPut(m, k, v) == [x \in DOMAIN m \cup {k} |-> IF x = k THEN v ELSE m[x]]

\* ------------------------------------------------------------ ORM models

\* Country(name=..., url=...) flushed at time now: id, created_at and updated_at
\* take their column defaults
CountryModel(id, e, now) ==
    [id |-> id, name |-> e.name, url |-> e.url, created_at |-> now, updated_at |-> now]

\* City(name=..., url=..., country_id=...) flushed at time now
CityModel(id, e, cid, now) ==
    [id |-> id, name |-> e.name, url |-> e.url, country_id |-> cid,
     created_at |-> now, updated_at |-> now]

\* The UPDATE statements of a flush: a row whose url differs from the stored one
\* is written and its updated_at takes the onupdate value
FlushUpdates(stored, view, now) ==
    { IF \E old \in stored : old.id = r.id /\ old.url # r.url
        THEN [r EXCEPT !.updated_at = now]
        ELSE r : r \in view }

\* ------------------------------------------------- upsert_countries_to_db

\* One iteration of the loop over countries_data.  t is the state of the open
\* session: rows (the table as the session sees it: flushed inserts and the
\* attribute changes of loaded objects), the mapping built so far, the counters.
\* .first() without ORDER BY returns any matching row.
CountryStepAlwaysCounts(t, e) ==
    IF e.name = ExcludedName THEN {t}
    ELSE LET matches == {r \in t.rows : r.name = e.name} IN
         IF matches # {}
         THEN { [t EXCEPT !.rows = (@ \ {r}) \cup {[r EXCEPT !.url = e.url]},
                          !.updated = @ + 1,
                          !.map = MapPut(@, e.name, r.id)] : r \in matches }
         ELSE { [t EXCEPT !.rows = @ \cup {CountryModel(t.nextId, e, t.now)},
                          !.inserted = @ + 1,
                          !.map = MapPut(@, e.name, t.nextId),
                          !.nextId = @ + 1] }

CountryStepRenames(t, e) ==
    IF e.name = ExcludedName THEN {t}
    ELSE LET matches == {r \in t.rows : r.name = e.name} IN
         IF matches # {}
         THEN { [t EXCEPT !.rows = (@ \ {r}) \cup
                              {[r EXCEPT !.url = e.url, !.created_at = t.now]},
                          !.updated = IF r.url # e.url THEN @ + 1 ELSE @,
                          !.map = MapPut(@, e.name, r.id)] : r \in matches }
         ELSE { [t EXCEPT !.rows = @ \cup {CountryModel(t.nextId, e, t.now)},
                          !.inserted = @ + 1,
                          !.map = MapPut(@, e.name, t.nextId),
                          !.nextId = @ + 1] }

CountryStepKeepsExcluded(t, e) ==
    LET matches == {r \in t.rows : r.name = e.name} IN
    IF matches # {}
    THEN { [t EXCEPT !.rows = (@ \ {r}) \cup {[r EXCEPT !.url = e.url]},
                     !.updated = IF r.url # e.url THEN @ + 1 ELSE @,
                     !.map = MapPut(@, e.name, r.id)] : r \in matches }
    ELSE { [t EXCEPT !.rows = @ \cup {CountryModel(t.nextId, e, t.now)},
                     !.inserted = @ + 1,
                     !.map = MapPut(@, e.name, t.nextId),
                     !.nextId = @ + 1] }

CountryStep(t, e) ==
    IF e.name = ExcludedName THEN {t}
    ELSE LET matches == {r \in t.rows : r.name = e.name} IN
         IF matches # {}
         THEN { [t EXCEPT !.rows = (@ \ {r}) \cup {[r EXCEPT !.url = e.url]},
                          !.updated = IF r.url # e.url THEN @ + 1 ELSE @,
                          !.map = MapPut(@, e.name, r.id)] : r \in matches }
         ELSE { [t EXCEPT !.rows = @ \cup {CountryModel(t.nextId, e, t.now)},
                          !.inserted = @ + 1,
                          !.map = MapPut(@, e.name, t.nextId),
                          !.nextId = @ + 1] }

\* the session states after the first k iterations
RECURSIVE CountryLoop(_, _, _)
CountryLoop(t0, data, k) ==
    IF k = 0 THEN {t0}
    ELSE UNION { CountryStep(t, data[k]) : t \in CountryLoop(t0, data, k - 1) }

\* A database fault of one call over n entries: the number of loop iterations
\* that complete before a statement raises (n: the commit raises; n + 1: no
\* statement raises)
Faults(n) == 0..(n + 1)
Raises(fault, n) == fault <= n

RollbackKeepsFlushed(stored, view) == view

\* db.rollback(): the flushed INSERTs and the attribute changes of the open
\* transaction are discarded, the table is what it was when the session began
Rollback(stored, view) == stored

\* The possible results of upsert_countries_to_db(list) on table
\* `stored`.  An exception is caught inside: rollback, and the mapping built
\* so far is still returned; the except handler has no raise, so the call
\* returns normally (raises is what propagates to the caller).
upsert_countries_to_db(stored, data, now, id0, fault) ==
    LET t0 == [rows |-> stored, map |-> EmptyMap, inserted |-> 0, updated |-> 0,
               nextId |-> id0, now |-> now]
        n  == IF Raises(fault, Len(data)) THEN fault ELSE Len(data)
    IN { [rows     |-> IF Raises(fault, Len(data)) THEN Rollback(stored, t.rows)
                       ELSE FlushUpdates(stored, t.rows, now),
          raises   |-> FALSE,
          map      |-> t.map,
          inserted |-> t.inserted,
          updated  |-> t.updated,
          nextId   |-> t.nextId,
          dbError  |-> Raises(fault, Len(data))] : t \in CountryLoop(t0, data, n) }

\* ---------------------------------------------------- upsert_cities_to_db

\* One iteration of the loop over cities_data.  The session is created with
\* autoflush=False and the loop never flushes: a City added by db.add() is
\* pending and no later query of the loop sees it.
CityStepAnyCountry(t, e, country_id) ==
    LET matches == {r \in t.rows : r.name = e.name}
    IN IF matches # {}
       THEN { [t EXCEPT !.rows = (@ \ {r}) \cup {[r EXCEPT !.url = e.url]},
                        !.updated = IF r.url # e.url THEN @ + 1 ELSE @,
                        !.skipped = IF r.url # e.url THEN @ ELSE @ + 1] : r \in matches }
       ELSE { [t EXCEPT !.pending = Append(@, e), !.inserted = @ + 1] }

CityStep(t, e, country_id) ==
    LET matches == {r \in t.rows : r.name = e.name /\ r.country_id = country_id}
    IN IF matches # {}
       THEN { [t EXCEPT !.rows = (@ \ {r}) \cup {[r EXCEPT !.url = e.url]},
                        !.updated = IF r.url # e.url THEN @ + 1 ELSE @,
                        !.skipped = IF r.url # e.url THEN @ ELSE @ + 1] : r \in matches }
       ELSE { [t EXCEPT !.pending = Append(@, e), !.inserted = @ + 1] }

RECURSIVE CityLoop(_, _, _, _)
CityLoop(t0, cities_data, country_id, k) ==
    IF k = 0 THEN {t0}
    ELSE UNION { CityStep(t, cities_data[k], country_id)
                   : t \in CityLoop(t0, cities_data, country_id, k - 1) }

\* ForeignKey("countries.id") on cities.country_id: the INSERTs of the commit
\* raise IntegrityError when the engine enforces foreign keys and the parent
\* row is missing; SQLite, which the engine never switches to enforcing,
\* stores the row.
ForeignKeyEnforces(sqlite) == ~sqlite

ForeignKeyViolated(sqlite, parents, t, country_id) ==
    /\ ForeignKeyEnforces(sqlite)
    /\ Len(t.pending) > 0
    /\ country_id \notin {c.id : c \in parents}

\* The possible results of upsert_cities_to_db(cities_data, country_id, _) on
\* table `stored`; parents is the table countries.  As in the country upsert
\* the except handler rolls back and does not raise.
upsert_cities_to_db(stored, parents, cities_data, country_id, now, id0, fault, sqlite) ==
    LET t0 == [rows |-> stored, pending |-> <<>>, inserted |-> 0, updated |-> 0,
               skipped |-> 0]
        n  == IF Raises(fault, Len(cities_data)) THEN fault ELSE Len(cities_data)
    IN { LET raised == Raises(fault, Len(cities_data))
                       \/ ForeignKeyViolated(sqlite, parents, t, country_id)
             added  == { CityModel(id0 + i - 1, t.pending[i], country_id, now)
                           : i \in 1..Len(t.pending) }
         IN [rows     |-> IF raised THEN Rollback(stored, t.rows)
                          ELSE FlushUpdates(stored, t.rows, now) \cup added,
             raises   |-> FALSE,
             inserted |-> t.inserted,
             updated  |-> t.updated,
             skipped  |-> t.skipped,
             nextId   |-> IF raised THEN id0 ELSE id0 + Len(t.pending),
             dbError  |-> raised] : t \in CityLoop(t0, cities_data, country_id, n) }

\* no use of idempotent_once, no scheduler
NoJobs ==
    /\ task_runs = {}
    /\ threads = <<>>
    /\ body_log = <<>>
    /\ entries = 0
    /\ _scheduler = 0
    /\ schedulers = <<>>
    /\ scheduler_calls = <<>>

\* no run of scrape_countries_cities_main in progress
NoRun ==
    /\ pc = "idle"
    /\ limit = <<>>
    /\ db_store = FALSE
    /\ files = EmptyMap
    /\ browser = 0
    /\ open_browsers = {}
    /\ launched = 0
    /\ countries_data = <<>>
    /\ country_name_to_id = EmptyMap
    /\ snapshot_data = <<>>
    /\ country_index = 0
    /\ attempt = 0
    /\ snapshot_success = FALSE
    /\ exit_code = 0
    /\ failure = "none"
    /\ pending_loss = "none"
    /\ country_calls = 0
    /\ country_err = "none"
    /\ city_calls = <<>>
    /\ exhausted = {}
    /\ last_err = "none"
    /\ wrote = FALSE
    /\ GIT_PUSH_ENABLED = FALSE
    /\ sync_calls = 0
    /\ unclosed = {}
    /\ delays = <<>>
    /\ NoJobs

\* ------------------------------------------------------------- SpecUpsert
\* The two upserts called directly, any bounded input, on a store that starts
\* empty and keeps what earlier calls committed.

CountryInputs == SeqsUpTo(CountryEntries, MaxBatch)
CityInputs == SeqsUpTo(CityEntries, MaxBatch)

NoCall ==
    [op |-> "none", pass |-> 0, input |-> <<>>, country_id |-> 0,
     beforeCountries |-> {}, beforeCities |-> {}, inserted |-> 0, updated |-> 0,
     skipped |-> 0, dbError |-> FALSE, raised |-> FALSE, firstOk |-> FALSE,
     map |-> EmptyMap]

InitUpsert ==
    /\ countries = {}
    /\ cities = {}
    /\ nextId = 1
    /\ clock = 0
    /\ is_sqlite \in BOOLEAN
    /\ last = NoCall
    /\ NoRun

\* upsert_countries_to_db(data) called, pass p of this input
DoUpsertCountries(data, p, firstOk) ==
    \E fault \in Faults(Len(data)) :
      \E res \in upsert_countries_to_db(countries, data, clock + 1, nextId, fault) :
        /\ countries' = res.rows
        /\ nextId' = res.nextId
        /\ clock' = clock + 1
        /\ last' = [op |-> "countries", pass |-> p, input |-> data,
                    country_id |-> 0,
                    beforeCountries |-> countries, beforeCities |-> cities,
                    inserted |-> res.inserted, updated |-> res.updated, skipped |-> 0,
                    dbError |-> res.dbError, raised |-> res.raises,
                    firstOk |-> firstOk, map |-> res.map]
        /\ UNCHANGED <<cities, is_sqlite>>
        /\ UNCHANGED <<runVars, jobVars>>

CallUpsertCountries ==
    /\ clock < MaxCalls
    /\ \E data \in CountryInputs : DoUpsertCountries(data, 1, FALSE)

\* the same input list handed to upsert_countries_to_db once more
RepeatUpsertCountries ==
    /\ clock < MaxCalls
    /\ last.op = "countries"
    /\ last.pass = 1
    /\ DoUpsertCountries(last.input, 2, ~last.dbError)

\* upsert_cities_to_db(data, country_id, _) called; generated identities start
\* at 1, so 0 is an identity that no Country row carries
CallUpsertCities ==
    /\ clock < MaxCalls
    /\ \E data \in CityInputs, cid \in {c.id : c \in countries} \cup {0} :
         \E fault \in Faults(Len(data)) :
           \E res \in upsert_cities_to_db(cities, countries, data, cid, clock + 1,
                                          nextId, fault, is_sqlite) :
             /\ cities' = res.rows
             /\ nextId' = res.nextId
             /\ clock' = clock + 1
             /\ last' = [op |-> "cities", pass |-> 1, input |-> data, country_id |-> cid,
                         beforeCountries |-> countries, beforeCities |-> cities,
                         inserted |-> res.inserted, updated |-> res.updated,
                         skipped |-> res.skipped, dbError |-> res.dbError,
                         raised |-> res.raises,
                         firstOk |-> FALSE, map |-> EmptyMap]
             /\ UNCHANGED <<countries, is_sqlite>>
             /\ UNCHANGED <<runVars, jobVars>>

NextUpsert ==
    \/ CallUpsertCountries
    \/ RepeatUpsertCountries
    \/ CallUpsertCities

SpecUpsert == InitUpsert /\ [][NextUpsert]_vars

\* ---------------------------------------------------- claims on SpecUpsert

\* the last call was a second pass of upsert_countries_to_db over the input of
\* a first pass, and both passes committed
SecondPassDone ==
    /\ last.op = "countries"
    /\ last.pass = 2
    /\ last.firstOk
    /\ ~last.dbError

\* no name occurs in the list with two different urls
NoConflictingDuplicates(data) ==
    \A i, j \in 1..Len(data) : data[i].name = data[j].name => data[i].url = data[j].url

HasDuplicateName(data) ==
    \E i, j \in 1..Len(data) :
        i # j /\ data[i].name = data[j].name /\ data[i].name # ExcludedName

C8_OneCityRowPerNameAndCountry ==
    \A r1, r2 \in cities :
        (r1.name = r2.name /\ r1.country_id = r2.country_id) => r1 = r2

\* the last call was a committed upsert_countries_to_db over a list of
\* distinct names that all have a row already
UpsertOfExistingCountries ==
    /\ last.op = "countries"
    /\ ~last.dbError
    /\ \A i, j \in 1..Len(last.input) : last.input[i].name = last.input[j].name => i = j
    /\ \A i \in 1..Len(last.input) :
          \/ last.input[i].name = ExcludedName
          \/ \E r \in last.beforeCountries : r.name = last.input[i].name

\* the entries of the last call whose stored url differs from the scraped one
ChangedEntries ==
    { i \in 1..Len(last.input) :
        /\ last.input[i].name # ExcludedName
        /\ \E r \in last.beforeCountries :
              r.name = last.input[i].name /\ r.url # last.input[i].url }

\* the table after the call when an update writes the url and, if stamp, also
\* the updated_at column
ExpectedCountries(stamp) ==
    { IF \E i \in ChangedEntries : last.input[i].name = r.name
        THEN LET i == CHOOSE k \in ChangedEntries : last.input[k].name = r.name
             IN [r EXCEPT !.url = last.input[i].url,
                          !.updated_at = IF stamp THEN clock ELSE @]
        ELSE r : r \in last.beforeCountries }

\* C9 as stated: upserting countries that have a row changes, for each entry
\* whose stored url differs, the url field of that row and nothing else, and
\* counts one update per such entry; entries with an equal url change nothing.
C9_UpdateChangesOnlyUrl ==
    UpsertOfExistingCountries =>
        /\ countries = ExpectedCountries(FALSE)
        /\ last.updated = Cardinality(ChangedEntries)
        /\ last.inserted = 0

\* C9 amended: the update changes the url field and the updated_at timestamp
\* of that row (onupdate), no other field and no other row; one update is
\* counted per entry whose stored url differs; equal urls change nothing.
C9_UpdateChangesUrlAndStamp ==
    UpsertOfExistingCountries =>
        /\ countries = ExpectedCountries(TRUE)
        /\ last.updated = Cardinality(ChangedEntries)
        /\ last.inserted = 0

\* C9 witness: one url was updated while another row and an entry with an
\* equal url were present
C9_Witness ==
    /\ UpsertOfExistingCountries
    /\ Cardinality(ChangedEntries) = 1
    /\ Cardinality(last.beforeCountries) = 2
    /\ Len(last.input) = 2

\* C10 as stated: upsert_cities_to_db with a country identity that has no
\* Country row fails and leaves the table cities unchanged.
C10_MissingCountryFails ==
    ( /\ last.op = "cities"
      /\ Len(last.input) > 0
      /\ last.country_id \notin {c.id : c \in last.beforeCountries} ) =>
        /\ last.dbError
        /\ cities = last.beforeCities

\* C12: when a step of upsert_countries_to_db raises (a statement of the loop
\* or the commit), the table countries after the call is the table before the
\* call: no insert and no url update of the batch is persisted.
C12_CountryBatchIsAllOrNothing ==
    (last.op = "countries" /\ last.dbError) => countries = last.beforeCountries

\* C12 witness: a call that had flushed an insert and changed the url of a
\* stored row raised and was rolled back
C12_Witness ==
    /\ last.op = "countries"
    /\ last.dbError
    /\ last.inserted > 0
    /\ last.updated > 0
    /\ countries = last.beforeCountries

\* C13 as stated: an exception raised during the transaction of
\* upsert_countries_to_db or upsert_cities_to_db is propagated to the caller.
C13_DbErrorIsPropagated ==
    (last.op \in {"countries", "cities"} /\ last.dbError) => last.raised

\* ------------------------------------------ scrape_countries_cities_main

\* most countries one country phase returns in Spec
MaxCountries == 2

\* retry loop of one country: for attempt in range(max_retries)
max_retries == 2

\* the run date, datetime.now().strftime("%Y-%m-%d"), and an earlier date
current_date == "2026-11-01"
EarlierDate == "2026-10-31"

\* snapshot_dir / f"{current_date}_countries_cities.json"
snapshot_file_path == [date |-> current_date, rest |-> "_countries_cities.json"]

\* files of the run date that an earlier run of the day or an operator may
\* have left in the snapshot directory, and the artifact of an earlier day
TodaysPriorFiles ==
    { snapshot_file_path,
      [date |-> current_date, rest |-> "_countries_cities.json.bak"] }
EarlierArtifact == [date |-> EarlierDate, rest |-> "_countries_cities.json"]

\* the content an earlier, successful run left in its artifact
PriorSnapshot ==
    << [country |-> "Pakistan", url |-> "url1", cities |-> <<>>] >>

GlobNothing(fs, date) == {}

\* snapshot_dir.glob(f"{current_date}*")
Glob(fs, date) == {f \in DOMAIN fs : f.date = date}

UnlinkNothing(fs, paths) == fs

\* path.unlink() for every path of a set
Unlink(fs, paths) == [f \in DOMAIN fs \ paths |-> fs[f]]

WriteJsonTruncates(fs, path, data) == MapPut(fs, path, <<>>)

\* open(path, 'w') and json.dump(data, f)
WriteJson(fs, path, data) == MapPut(fs, path, data)

\* what one call of scrape_countries can return in Spec
ScrapedCountryEntries ==
    { [name |-> "Pakistan", url |-> "url1"],
      [name |-> "India", url |-> "url1"],
      [name |-> "India", url |-> NoUrl],
      [name |-> ExcludedName, url |-> "url1"] }
ScrapedCountryLists == SeqsUpTo(ScrapedCountryEntries, MaxCountries)

\* kinds of exception of a page operation: none raised, one whose text has no
\* session-loss signature, one whose text has one
ErrKinds == {"none", "plain", "loss"}

\* values of --limit in Spec: None, negative, zero, positive
Limits == {<<>>, <<0 - 1>>, <<0>>, <<1>>}

\* seq[:n] of Python
SliceTo(seq, n) ==
    IF n >= 0
    THEN SubSeq(seq, 1, IF n < Len(seq) THEN n ELSE Len(seq))
    ELSE SubSeq(seq, 1, IF Len(seq) + n > 0 THEN Len(seq) + n ELSE 0)

\* countries_data[:limit] if limit else countries_data
countries_to_process ==
    IF limit # <<>> /\ limit[1] # 0 THEN SliceTo(countries_data, limit[1]) ELSE countries_data

IsSessionLossNever(err) == FALSE

\* "closed" in error_str or "crash" in error_str or "detached" in error_str
IsSessionLoss(err) == err = "loss"

\* scrape_countries(page) when the page yields `data` and a page operation
\* raises an exception of kind err: the try/except around the whole body
\* catches it and the entries collected so far are returned; nothing propagates
scrape_countries(data, err) ==
    [raises |-> FALSE, countries_data |-> data]

EmptyResultExitsNever(data) == FALSE

\* lines 554-556: if not countries_data: sys.exit(1)
EmptyResultExits(data) == data = <<>>

ExitStatusIgnoresFailure(terminal, status) == status

\* sys.exit(1) at lines 556 and 668: the status of the process when the run
\* reached one of them (terminal), the status so far otherwise
ExitStatus(terminal, status) == IF terminal THEN 1 ELSE status

\* browser.close(): it returns, or it raises with the browser gone (it had
\* crashed), or it raises with the browser still there
CloseOutcomes == {"closed", "raised_gone", "raised_open"}
AfterCloseLeaks(out) == open_browsers

AfterClose(out) ==
    IF out = "raised_open" THEN open_browsers ELSE open_browsers \ {browser}

\* the browsers left running by a close() that raised (the except swallows it)
UnclosedAfter(out) ==
    IF out = "raised_open" THEN unclosed \cup {browser} ELSE unclosed

InitRun ==
    /\ pc = "start"
    /\ limit \in Limits
    /\ db_store \in BOOLEAN
    /\ files \in { [f \in S \cup {EarlierArtifact} |-> PriorSnapshot]
                      : S \in SUBSET TodaysPriorFiles }
    /\ browser = 0
    /\ open_browsers = {}
    /\ launched = 0
    /\ countries_data = <<>>
    /\ country_name_to_id = EmptyMap
    /\ snapshot_data = <<>>
    /\ country_index = 0
    /\ attempt = 0
    /\ snapshot_success = FALSE
    /\ exit_code = 0
    /\ failure = "none"
    /\ pending_loss = "none"
    /\ country_calls = 0
    /\ country_err = "none"
    /\ city_calls = <<>>
    /\ exhausted = {}
    /\ last_err = "none"
    /\ wrote = FALSE
    /\ GIT_PUSH_ENABLED \in BOOLEAN
    /\ sync_calls = 0
    /\ unclosed = {}
    /\ delays = <<>>
    /\ NoJobs

\* a Country row of the excluded name, created outside the crawler before
\* the run
ExcludedRow == CountryModel(1, [name |-> ExcludedName, url |-> "url2"], 0)

\* the stores a run can start on in Spec: the engine and the table countries.
\* They matter only to a run that stores; the default engine is SQLite.
InitialStores ==
    { [is_sqlite |-> TRUE, countries |-> {}],
      [is_sqlite |-> FALSE, countries |-> {}],
      [is_sqlite |-> TRUE, countries |-> {ExcludedRow}] }

Init ==
    /\ cities = {}
    /\ clock = 0
    /\ last = NoCall
    /\ InitRun
    /\ \E st \in IF db_store THEN InitialStores
                  ELSE {[is_sqlite |-> TRUE, countries |-> {}]} :
         /\ is_sqlite = st.is_sqlite
         /\ countries = st.countries
         /\ nextId = 1 + Cardinality(st.countries)

\* lines 490-540: the artifacts of the run date are removed, the browser is
\* launched.  launch_browser() is outside the try: if it raises, the process
\* ends with a traceback.
Start ==
    /\ pc = "start"
    /\ files' = Unlink(files, Glob(files, current_date))
    /\ \E launchOk \in BOOLEAN :
         IF launchOk
         THEN /\ browser' = launched + 1
              /\ open_browsers' = {launched + 1}
              /\ launched' = launched + 1
              /\ pc' = "countries"
              /\ UNCHANGED <<exit_code, failure>>
         ELSE /\ pc' = "done"
              /\ exit_code' = 1
              /\ failure' = "start"
              /\ UNCHANGED <<browser, open_browsers, launched>>
    /\ UNCHANGED <<dbVars, last, limit, db_store, countries_data, country_name_to_id,
                   snapshot_data, country_index, attempt, snapshot_success,
                   pending_loss, country_calls, country_err, city_calls, exhausted,
                   last_err, wrote,
                   GIT_PUSH_ENABLED, sync_calls, unclosed, delays, jobVars>>

\* lines 543-556: PHASE 1.  The except branch restarts the browser and calls
\* scrape_countries once more; an exception of that second call reaches the
\* outer except.  An empty result is sys.exit(1).
CountryPhase ==
    /\ pc = "countries"
    /\ \E data1 \in ScrapedCountryLists, err1 \in ErrKinds,
          data2 \in ScrapedCountryLists, err2 \in ErrKinds :
         LET first   == scrape_countries(data1, err1)
             retried == first.raises
             second  == scrape_countries(data2, err2)
             result  == IF retried THEN second ELSE first
             fatal   == retried /\ second.raises
         IN /\ country_calls' = IF retried THEN 2 ELSE 1
            /\ country_err' = err1
            /\ browser' = IF retried THEN launched + 1 ELSE browser
            /\ launched' = IF retried THEN launched + 1 ELSE launched
            /\ open_browsers' = IF retried
                                THEN (open_browsers \ {browser}) \cup {launched + 1}
                                ELSE open_browsers
            /\ pending_loss' = IF ~retried /\ err1 = "loss" THEN "country"
                               ELSE IF retried /\ ~fatal /\ err2 = "loss" THEN "country"
                               ELSE "none"
            /\ countries_data' = IF fatal THEN <<>> ELSE result.countries_data
            /\ failure' = IF fatal THEN "country"
                          ELSE IF EmptyResultExits(result.countries_data) THEN "empty"
                          ELSE "none"
            /\ pc' = IF fatal \/ EmptyResultExits(result.countries_data)
                     THEN "finally" ELSE "upsert"
            /\ exit_code' = ExitStatus(fatal \/ EmptyResultExits(result.countries_data),
                                       exit_code)
    /\ UNCHANGED <<dbVars, last, limit, db_store, files, country_name_to_id,
                   snapshot_data, country_index, attempt, snapshot_success,
                   city_calls, exhausted, last_err, wrote,
                   GIT_PUSH_ENABLED, sync_calls, unclosed, delays, jobVars>>

\* lines 558-582: the country upsert (with --db-store), the empty snapshot
\* entries, the countries to process
UpsertAndInit ==
    /\ pc = "upsert"
    /\ IF db_store
       THEN \E fault \in Faults(Len(countries_data)) :
              \E res \in upsert_countries_to_db(countries, countries_data, clock + 1,
                                                nextId, fault) :
                /\ countries' = res.rows
                /\ nextId' = res.nextId
                /\ clock' = clock + 1
                /\ country_name_to_id' = res.map
       ELSE /\ country_name_to_id' = EmptyMap
            /\ UNCHANGED <<countries, nextId, clock>>
    /\ snapshot_data' = [i \in 1..Len(countries_data) |->
                           [country |-> countries_data[i].name,
                            url |-> countries_data[i].url,
                            cities |-> <<>>]]
    /\ city_calls' = [i \in 1..Len(countries_to_process) |-> 0]
    /\ country_index' = 1
    /\ attempt' = 0
    /\ pc' = "cities"
    /\ UNCHANGED <<cities, is_sqlite, last, limit, db_store, files, browser,
                   open_browsers, launched, countries_data, snapshot_success,
                   exit_code, failure, pending_loss, country_calls, country_err,
                   exhausted, last_err, wrote,
                   GIT_PUSH_ENABLED, sync_calls, unclosed, delays, jobVars>>

SkipCountryIgnoresUrl(country, store, ids) ==
    store /\ country.name \notin DOMAIN ids

\* lines 588-598: a country without an identity (with --db-store) or without
\* a url is skipped
SkipCountry(country, store, ids) ==
    \/ store /\ country.name \notin DOMAIN ids
    \/ country.url = NoUrl

\* lines 584-602 and 656-661: the head of the loop over countries_to_process:
\* the loop ends (success), the country is skipped, or its attempts start
CityLoopHead ==
    /\ pc = "cities"
    /\ IF country_index > Len(countries_to_process)
       THEN /\ snapshot_success' = TRUE
            /\ pc' = "finally"
            /\ UNCHANGED country_index
       ELSE LET country == countries_to_process[country_index]
                skip == SkipCountry(country, db_store, country_name_to_id)
            IN /\ pc' = IF skip THEN "cities" ELSE "attempt"
               /\ country_index' = IF skip THEN country_index + 1 ELSE country_index
               /\ UNCHANGED snapshot_success
    /\ attempt' = 0
    /\ UNCHANGED <<dbVars, last, limit, db_store, files, browser, open_browsers,
                   launched, countries_data, country_name_to_id, snapshot_data,
                   exit_code, failure, pending_loss, country_calls, country_err,
                   city_calls, exhausted, last_err, wrote,
                   GIT_PUSH_ENABLED, sync_calls, unclosed, delays, jobVars>>

\* what one call of scrape_cities_for_country can return in Spec: no city,
\* one city, a city name found on two letter pages
ScrapedCityLists ==
    { <<>>,
      << [name |-> "Lahore", url |-> "url1"] >>,
      << [name |-> "Lahore", url |-> "url1"], [name |-> "Lahore", url |-> "url2"] >> }

\* lines 618-621: the first snapshot entry of that country name takes the cities
SetCities(data, country_name, cities_data) ==
    IF \E i \in 1..Len(data) : data[i].country = country_name
    THEN LET i == CHOOSE k \in 1..Len(data) :
                    /\ data[k].country = country_name
                    /\ \A j \in 1..(k - 1) : data[j].country # country_name
         IN [data EXCEPT ![i].cities = cities_data]
    ELSE data

CityStoreAlways(cities_data, country_id) ==
    IF cities_data # <<>>
    THEN UNION { { [rows |-> res.rows, nextId |-> res.nextId, clock |-> clock + 1]
                     : res \in upsert_cities_to_db(cities, countries, cities_data,
                                                   country_id, clock + 1, nextId,
                                                   fault, is_sqlite) }
                 : fault \in Faults(Len(cities_data)) }
    ELSE { [rows |-> cities, nextId |-> nextId, clock |-> clock] }

\* lines 610-613: upsert_cities_to_db is called for a non-empty result when
\* --db-store is set and the country has an identity; the possible tables after
CityStore(cities_data, country_id) ==
    IF cities_data # <<>> /\ db_store /\ country_id # 0
    THEN UNION { { [rows |-> res.rows, nextId |-> res.nextId, clock |-> clock + 1]
                     : res \in upsert_cities_to_db(cities, countries, cities_data,
                                                   country_id, clock + 1, nextId,
                                                   fault, is_sqlite) }
                 : fault \in Faults(Len(cities_data)) }
    ELSE { [rows |-> cities, nextId |-> nextId, clock |-> clock] }

AfterIterationNoDelay(slept, index, total_countries) == slept

\* lines 651-654: the end of an iteration that was not skipped: the sleep
\* between countries unless this was the last country of the list
AfterIteration(slept, index, total_countries) ==
    IF index < total_countries THEN Append(slept, index) ELSE slept

\* lines 648-654: after an attempt that raised, the retry loop goes on with
\* the next attempt or, after the last one, the loop over the countries goes on
AfterFailedAttemptFatal(att) ==
    IF att = max_retries - 1 THEN "finally" ELSE "attempt"

AfterFailedAttempt(att) ==
    IF att = max_retries - 1 THEN "cities" ELSE "attempt"

\* lines 608-633: scrape_cities_for_country returned cities_data
AttemptReturns(country, country_id, cities_data) ==
    /\ \E store \in CityStore(cities_data, country_id) :
         /\ cities' = store.rows
         /\ nextId' = store.nextId
         /\ clock' = store.clock
    /\ snapshot_data' = IF cities_data # <<>>
                        THEN SetCities(snapshot_data, country.name, cities_data)
                        ELSE snapshot_data
    /\ files' = IF cities_data # <<>>
                THEN WriteJson(files, snapshot_file_path, snapshot_data')
                ELSE files
    /\ wrote' = (wrote \/ cities_data # <<>>)
    /\ last_err' = "none"
    /\ country_index' = country_index + 1
    /\ attempt' = 0
    /\ pc' = "cities"
    /\ delays' = AfterIteration(delays, country_index, Len(countries_to_process))
    /\ UNCHANGED <<browser, open_browsers, launched, pending_loss, exhausted,
                   failure, snapshot_success, exit_code, unclosed>>

\* lines 635-649: scrape_cities_for_country raised an exception of kind err.
\* A session-loss signature restarts the browser: close (errors swallowed),
\* then launch_browser(), whose exception reaches the outer except.
AttemptRaises(err) ==
    \E closed \in CloseOutcomes, launchOk \in BOOLEAN :
      LET restart == IsSessionLoss(err)
          fatal   == restart /\ ~launchOk
          next    == AfterFailedAttempt(attempt)
      IN /\ open_browsers' = IF ~restart THEN open_browsers
                             ELSE IF fatal THEN AfterClose(closed)
                             ELSE AfterClose(closed) \cup {launched + 1}
         /\ unclosed' = IF restart THEN UnclosedAfter(closed) ELSE unclosed
         /\ browser' = IF restart /\ ~fatal THEN launched + 1 ELSE browser
         /\ launched' = IF restart /\ ~fatal THEN launched + 1 ELSE launched
         /\ pending_loss' = IF restart /\ ~fatal THEN "none"
                            ELSE IF err = "loss" THEN "city"
                            ELSE pending_loss
         /\ last_err' = err
         /\ failure' = IF fatal THEN "launch" ELSE failure
         /\ exit_code' = ExitStatus(fatal, exit_code)
         /\ snapshot_success' = snapshot_success
         /\ pc' = IF fatal THEN "finally" ELSE next
         /\ attempt' = IF ~fatal /\ next = "attempt" THEN attempt + 1 ELSE attempt
         /\ country_index' = IF ~fatal /\ next = "cities"
                             THEN country_index + 1 ELSE country_index
         /\ exhausted' = IF attempt = max_retries - 1
                         THEN exhausted \cup {country_index} ELSE exhausted
         /\ delays' = IF ~fatal /\ next = "cities"
                      THEN AfterIteration(delays, country_index,
                                          Len(countries_to_process))
                      ELSE delays
         /\ UNCHANGED <<cities, nextId, clock, snapshot_data, files, wrote>>

\* lines 604-654: one attempt of the retry loop of the current country
CityAttempt ==
    /\ pc = "attempt"
    /\ LET country == countries_to_process[country_index]
           country_id == IF db_store THEN country_name_to_id[country.name] ELSE 0
       IN \E err \in ErrKinds, cities_data \in ScrapedCityLists :
            IF err = "none"
            THEN AttemptReturns(country, country_id, cities_data)
            ELSE AttemptRaises(err)
    /\ city_calls' = [city_calls EXCEPT ![country_index] = @ + 1]
    /\ UNCHANGED <<countries, is_sqlite, last, limit, db_store, countries_data,
                   country_name_to_id, country_calls, country_err,
                   GIT_PUSH_ENABLED, sync_calls, jobVars>>

\* lines 670-686: the artifact after the finally block: written on success,
\* removed (if it exists) on failure
FinalFilesKeeps(fs, success, data) ==
    IF success THEN WriteJson(fs, snapshot_file_path, data) ELSE fs

FinalFilesSkipsWrite(fs, success, data) ==
    IF success THEN fs ELSE Unlink(fs, {snapshot_file_path})

FinalFiles(fs, success, data) ==
    IF success
    THEN WriteJson(fs, snapshot_file_path, data)
    ELSE Unlink(fs, {snapshot_file_path})

\* lines 670-693: the finally block, after which the process ends with the
\* status that sys.exit set (0 if it was not called)
Finally ==
    /\ pc = "finally"
    /\ files' = FinalFiles(files, snapshot_success, snapshot_data)
    /\ \E closed \in CloseOutcomes :
         /\ open_browsers' = AfterClose(closed)
         /\ unclosed' = UnclosedAfter(closed)
         /\ delays' = delays
    /\ pc' = "done"
    /\ UNCHANGED <<dbVars, last, limit, db_store, browser, launched, countries_data, exit_code,
                   country_name_to_id, snapshot_data, country_index, attempt,
                   snapshot_success, failure, pending_loss, country_calls,
                   country_err, city_calls, exhausted, last_err, wrote,
                   GIT_PUSH_ENABLED, sync_calls, jobVars>>

Next ==
    \/ Start
    \/ CountryPhase
    \/ UpsertAndInit
    \/ CityLoopHead
    \/ CityAttempt
    \/ Finally

Spec == Init /\ [][Next]_vars

\* ---------------------------------------------------------- claims on Spec

C2_CountryFailureIsRetriedOnce ==
    /\ country_calls <= 2
    /\ (pc \notin {"start", "countries"} /\ country_err # "none") =>
          /\ country_calls = 2
          /\ launched = 2

\* C3 as stated: no scrape (page operation) starts while a session-loss error
\* of the country phase or of the city phase has not been followed by a restart.
C3_RestartBeforeNextPageOperation ==
    pc = "attempt" => pending_loss = "none"

\* the countries whose attempts are exhausted were left behind by the loop and
\* did not make the run fail
ExhaustedCountriesDoNotFail(unlessLaunchFails) ==
    \A i \in exhausted :
        \/ unlessLaunchFails /\ failure = "launch" /\ last_err = "loss"
        \/ /\ failure = "none"
           /\ country_index > i
           /\ pc \in {"finally", "done"} => snapshot_success

\* C4 as stated: scrape_cities_for_country is called at most 2 times per
\* country, and a country whose two attempts raised does not fail the run: the
\* loop goes on with the next country.
C4_TwoAttemptsThenNextCountry ==
    /\ \A i \in DOMAIN city_calls : city_calls[i] <= 2
    /\ \A i \in exhausted : city_calls[i] = 2
    /\ ExhaustedCountriesDoNotFail(FALSE)

\* C4 amended: as C4, except that the run fails when launch_browser() raises
\* during the restart that follows a session-loss error of an attempt.
C4_TwoAttemptsThenNextCountryUnlessLaunchFails ==
    /\ \A i \in DOMAIN city_calls : city_calls[i] <= 2
    /\ \A i \in exhausted : city_calls[i] = 2
    /\ ExhaustedCountriesDoNotFail(TRUE)

\* C4 witness: a run has ended successfully although the attempts of one
\* country were exhausted and another country was scraped after it
C4_Witness ==
    /\ pc = "done"
    /\ exit_code = 0
    /\ snapshot_success
    /\ 1 \in exhausted
    /\ Len(city_calls) = 2
    /\ city_calls[2] = 1
    /\ snapshot_file_path \in DOMAIN files

\* C5: in the city phase no attempt starts while a session-loss error of an
\* attempt has not been followed by a restart; an attempt that raises a
\* session-loss error leaves a freshly launched browser behind (unless the
\* launch raised), an attempt that raises another error leaves the browser as
\* it was and consumes one attempt.
C5_SessionLossRestartsBrowser ==
    /\ [](pc = "attempt" => pending_loss # "city")
    /\ [][pc = "attempt" =>
            /\ (last_err' = "loss" /\ pc' # "finally") =>
                  /\ browser' # browser
                  /\ browser' \notin open_browsers
                  /\ browser' \in open_browsers'
            /\ last_err' = "plain" =>
                  /\ browser' = browser
                  /\ open_browsers' = open_browsers
                  /\ launched' = launched
                  /\ \/ attempt' = attempt + 1 /\ country_index' = country_index
                     \/ attempt = 1 /\ country_index' = country_index + 1
         ]_vars

\* C5 witness: the second attempt of a country is about to start on a browser
\* launched after the session-loss error of the first attempt
C5_Witness ==
    /\ pc = "attempt"
    /\ attempt = 1
    /\ last_err = "loss"
    /\ browser = 2
    /\ city_calls[country_index] = 1

\* C11 as stated: with --db-store every committed City row refers to a
\* committed Country row, and the mapping handed to the city phase holds only
\* identities of committed Country rows, also after a country upsert that
\* raised and was rolled back.
C11_CityRowsHaveCommittedParent ==
    db_store =>
        /\ \A r \in cities : r.country_id \in {c.id : c \in countries}
        /\ \A n \in DOMAIN country_name_to_id :
              country_name_to_id[n] \in {c.id : c \in countries}

\* the city phase is under way and at least one country of the loop has been
\* left behind (scraped, skipped or given up)
CountryCompleted ==
    /\ pc \in {"cities", "attempt"}
    /\ country_index > 1

C15_OneArtifactPerDate ==
    pc # "start" =>
        /\ Glob(files, current_date) \subseteq {snapshot_file_path}
        /\ snapshot_file_path \in DOMAIN files =>
              (wrote \/ (pc = "done" /\ snapshot_success))
        /\ \A f \in DOMAIN files : Cardinality(Glob(files, f.date)) = 1
        /\ EarlierArtifact \in DOMAIN files
        /\ files[EarlierArtifact] = PriorSnapshot

\* C15 witness: a successful run has ended; the artifact of the run date is
\* the one it wrote, next to the artifact of the earlier day
C15_Witness ==
    /\ pc = "done"
    /\ snapshot_success
    /\ wrote
    /\ DOMAIN files = {snapshot_file_path, EarlierArtifact}
    /\ files[snapshot_file_path] # PriorSnapshot

C17_SuccessTriggersSync ==
    pc = "done" =>
        /\ (snapshot_success /\ GIT_PUSH_ENABLED) => sync_calls > 0
        /\ ~snapshot_success => sync_calls = 0

\* C18: the process ends with status 1 exactly when the country result was
\* empty or an exception reached the top level (launch_browser() raising at
\* the start or during a restart); every other run ends with status 0, also
\* when countries were skipped or exhausted their attempts.
C18_ExitCode ==
    pc = "done" =>
        /\ exit_code \in {0, 1}
        /\ exit_code = 1 <=>
              \/ failure = "start"
              \/ countries_data = <<>>
              \/ failure \in {"country", "launch"}
        /\ exit_code = 0 <=> snapshot_success

\* C18 witness: a run in which one country was skipped and another exhausted
\* its attempts ended with status 0
C18_Witness ==
    /\ pc = "done"
    /\ exit_code = 0
    /\ Len(city_calls) = 2
    /\ city_calls[1] = 0
    /\ exhausted = {2}

\* C19: after scrape_countries returned an empty list the run goes straight
\* to its end with status 1: the browser is the first one, scrape_countries
\* was called once, no upsert ran and no city was scraped.
C19_EmptyResultAbortsImmediately ==
    (pc \notin {"start", "countries"} /\ failure # "start" /\ countries_data = <<>>) =>
        /\ pc \in {"finally", "done"}
        /\ exit_code = 1
        /\ ~snapshot_success
        /\ launched = 1
        /\ browser = 1
        /\ country_calls = 1
        /\ clock = 0
        /\ countries \subseteq {ExcludedRow}
        /\ country_name_to_id = EmptyMap
        /\ city_calls = <<>>
        /\ snapshot_data = <<>>

\* C19 witness: a run with --db-store whose country phase returned nothing,
\* without any exception inside scrape_countries, has ended
C19_Witness ==
    /\ pc = "done"
    /\ db_store
    /\ country_err = "none"
    /\ countries_data = <<>>
    /\ failure = "empty"
    /\ exit_code = 1

\* the run is in or past the city phase without having failed before it
PastCountryUpsert ==
    \/ pc \in {"cities", "attempt"}
    \/ pc \in {"finally", "done"} /\ failure \in {"none", "launch"}

\* C23: no Country row of the excluded name is inserted or changed by a run
\* (a row of that name is the one stored before the run, as it was), the
\* mapping has no entry for the name, and the snapshot keeps the entry of
\* every scraped country, the excluded one included, up to the artifact of a
\* successful run.
C23_ExcludedNameOnlyInSnapshot ==
    /\ \A r \in countries : r.name = ExcludedName => r = ExcludedRow
    /\ ExcludedName \notin DOMAIN country_name_to_id
    /\ PastCountryUpsert =>
          /\ Len(snapshot_data) = Len(countries_data)
          /\ \A i \in 1..Len(countries_data) :
                countries_data[i].name = ExcludedName =>
                    snapshot_data[i].country = ExcludedName
    /\ (pc = "done" /\ snapshot_success) =>
          \A i \in 1..Len(countries_data) :
              countries_data[i].name = ExcludedName =>
                  files[snapshot_file_path][i].country = ExcludedName

\* C23 witness: a storing run over the excluded country and another one ended
\* successfully on a store that held a row of the excluded name
C23_Witness ==
    /\ pc = "done"
    /\ snapshot_success
    /\ db_store
    /\ ExcludedRow \in countries
    /\ Cardinality(countries) = 2
    /\ Len(countries_data) = 2
    /\ countries_data[1].name = ExcludedName
    /\ files[snapshot_file_path][1].country = ExcludedName

\* C25 as stated: at no point of a run are two browsers open, and while the
\* run scrapes, the only open browser is the one the handles refer to.
C25_OneSessionAtATime ==
    /\ Cardinality(open_browsers) <= 1
    /\ pc \in {"countries", "upsert", "cities", "attempt"} => open_browsers = {browser}

\* C25 amended: while the run scrapes, the handles refer to the browser
\* launched last, which is open; every other open browser is one whose
\* close() raised (the error was swallowed and the new session was created
\* all the same).
C25_OneSessionUnlessCloseRaised ==
    /\ open_browsers \subseteq {browser} \cup unclosed
    /\ pc \in {"countries", "upsert", "cities", "attempt"} =>
          /\ browser = launched
          /\ browser \in open_browsers
          /\ browser \notin unclosed

\* C25 witness: the second attempt of a country starts on the browser
\* launched by a restart whose close() raised
C25_Witness ==
    /\ pc = "attempt"
    /\ attempt = 1
    /\ last_err = "loss"
    /\ unclosed = {1}
    /\ browser = 2
    /\ open_browsers = {1, 2}

\* C26 as stated: with --limit N the city phase processes at most N countries
\* (none for a negative N).
C26_LimitCapsCountries ==
    limit # <<>> =>
        Len(city_calls) <= (IF limit[1] < 0 THEN 0 ELSE limit[1])

\* the countries of the loop that have a url / that are skipped
HasUrl(i) == countries_to_process[i].url # NoUrl
IsSkipped(i) ==
    \/ db_store /\ countries_to_process[i].name \notin DOMAIN country_name_to_id
    \/ countries_to_process[i].url = NoUrl

\* C27: without --db-store no upsert is ever called and the tables stay as
\* they are, while a successful run has scraped every country of the loop
\* that has a url and the cities it found are in the artifact; with
\* --db-store the country upsert is called exactly once, in the step between
\* the country phase and the city phase, before any city scrape.
C27_StoreOnlyWithDbStore ==
    /\ [](~db_store =>
            /\ clock = 0
            /\ countries = {}
            /\ cities = {}
            /\ country_name_to_id = EmptyMap)
    /\ []((~db_store /\ pc = "done" /\ snapshot_success) =>
            /\ \A i \in DOMAIN city_calls : HasUrl(i) => city_calls[i] >= 1
            /\ files[snapshot_file_path] = snapshot_data)
    /\ []((db_store /\ pc \in {"cities", "attempt"}) =>
            /\ clock >= 1
            /\ (\A i \in DOMAIN city_calls : city_calls[i] = 0) => clock = 1)
    /\ [][/\ pc' = "upsert" => pc = "countries"
          /\ (pc = "upsert" /\ db_store) => (clock = 0 /\ clock' = 1)
          /\ clock' # clock => (db_store /\ pc \in {"upsert", "attempt"})
          /\ countries' # countries => pc = "upsert"
         ]_vars

\* C27 witness: a successful run without --db-store scraped two countries and
\* their cities are in the artifact
C27_Witness ==
    /\ pc = "done"
    /\ snapshot_success
    /\ ~db_store
    /\ city_calls = <<1, 1>>
    /\ clock = 0
    /\ files[snapshot_file_path][1].cities # <<>>
    /\ files[snapshot_file_path][2].cities # <<>>

\* ------------------------------------------------------------ SpecSameDay
\* The runs of Spec that start on a day on which an earlier run has left its
\* artifact: same-day re-runs.
InitSameDay ==
    /\ Init
    /\ snapshot_file_path \in DOMAIN files

SpecSameDay == InitSameDay /\ [][Next]_vars

NothingToStoreFor(i) ==
    \/ i > Len(countries_to_process)
    \/ i >= country_index
    \/ i \in exhausted
    \/ IsSkipped(i)

\* C39 as stated: once initialised, the snapshot structure has one entry per
\* scraped country record, in scraped order; the entries of the records
\* beyond the limit, skipped, failed or not yet processed have no city; a
\* step changes the cities of no entry but that of the country record being
\* processed, and never to the empty list.
C39_SnapshotEntryPerRecord ==
    /\ [](country_index > 0 =>
            /\ Len(snapshot_data) = Len(countries_data)
            /\ \A i \in 1..Len(snapshot_data) :
                  /\ snapshot_data[i].country = countries_data[i].name
                  /\ snapshot_data[i].url = countries_data[i].url
                  /\ NothingToStoreFor(i) => snapshot_data[i].cities = <<>>)
    /\ [][\A j \in DOMAIN snapshot_data :
            snapshot_data'[j].cities # snapshot_data[j].cities =>
                /\ j = country_index
                /\ snapshot_data'[j].cities # <<>>]_vars

\* how often the inter-country sleep followed the i-th country of the loop
DelaysAfter(i) == Cardinality({k \in 1..Len(delays) : delays[k] = i})

\* the sleeps were taken in the order of the loop: exactly one after every
\* country that was processed (not skipped) and left behind, whether its
\* scrape succeeded or failed, unless it was the last country of the list;
\* none after a skipped country
DelayAfterEachProcessed ==
    /\ \A k \in 1..(Len(delays) - 1) : delays[k] < delays[k + 1]
    /\ \A i \in 1..Len(countries_to_process) :
          DelaysAfter(i) =
            IF /\ i < country_index
               /\ i < Len(countries_to_process)
               /\ ~IsSkipped(i)
            THEN 1 ELSE 0

\* C34 as stated: one inter-country delay between the city scrapes of two
\* consecutively processed countries, and a delay only after a successful
\* country iteration.
C34_DelayOnlyAfterSuccess ==
    /\ DelayAfterEachProcessed
    /\ \A k \in 1..Len(delays) : delays[k] \notin exhausted

\* C34 amended: one inter-country delay after every country iteration that
\* was not skipped, successful or not, except after the last country of the
\* list; hence exactly one between the scrapes of two consecutively
\* processed countries.
C34_DelayAfterEveryProcessed == DelayAfterEachProcessed

\* C34 witness: the first country failed all its attempts, the delay was
\* taken all the same, and the second country was scraped
C34_Witness ==
    /\ delays = <<1>>
    /\ 1 \in exhausted
    /\ Len(city_calls) = 2
    /\ city_calls[2] >= 1

\* identity of the i-th country of the loop (with --db-store, when resolved)
IdentityOf(i) == country_name_to_id[countries_to_process[i].name]

\* C28: every City row belongs to a country the loop has already left
\* behind; a step of the city phase changes only City rows of the country it
\* processes (none when the upsert fails or the run stops), and no other step
\* changes a City row.
C28_CityCommitsPerCountry ==
    /\ [](\A r \in cities :
            \E i \in 1..(country_index - 1) :
                /\ i <= Len(countries_to_process)
                /\ countries_to_process[i].name \in DOMAIN country_name_to_id
                /\ r.country_id = IdentityOf(i))
    /\ [][/\ pc # "attempt" => cities' = cities
          /\ (pc = "attempt" /\ ~db_store) => cities' = cities
          /\ (pc = "attempt" /\ db_store) =>
                {r \in cities' : r.country_id # IdentityOf(country_index)}
                  = {r \in cities : r.country_id # IdentityOf(country_index)}
         ]_vars

\* C28 witness: the City rows of the first country are committed, the upsert
\* of the second country's cities failed and left no row
C28_Witness ==
    /\ db_store
    /\ pc = "cities"
    /\ country_index = 3
    /\ Len(countries_to_process) = 2
    /\ countries_to_process[1].name # countries_to_process[2].name
    /\ countries_to_process[1].name \in DOMAIN country_name_to_id
    /\ countries_to_process[2].name \in DOMAIN country_name_to_id
    /\ city_calls = <<1, 1>>
    /\ snapshot_data[2].cities # <<>>
    /\ cities # {}
    /\ \A r \in cities : r.country_id = IdentityOf(1)

\* C30: the loop index only moves forward by one, over the scraped list in
\* its order; no country ahead of the index has been scraped; a country
\* without identity (with --db-store) or without url is never scraped, and
\* the step that skips it changes neither the attempt counters nor the
\* outcome of the run.
C30_OrderedVisitAndSkips ==
    /\ [](/\ \A i \in 1..Len(countries_to_process) :
                countries_to_process[i] = countries_data[i]
          /\ \A i \in DOMAIN city_calls :
                /\ i > country_index => city_calls[i] = 0
                /\ IsSkipped(i) => city_calls[i] = 0
                /\ i \notin exhausted \/ ~IsSkipped(i))
    /\ [][/\ country_index' # country_index =>
                /\ pc \in {"upsert", "cities", "attempt"}
                /\ country_index' = country_index + 1
          /\ pc = "cities" =>
                /\ city_calls' = city_calls
                /\ attempt' = 0
                /\ failure' = failure
                /\ exit_code' = exit_code
                /\ exhausted' = exhausted
         ]_vars

\* C30 witness: a storing run skipped the excluded country, which has no
\* identity, then a country without url, and ended successfully
C30_Witness ==
    /\ pc = "done"
    /\ db_store
    /\ exit_code = 0
    /\ snapshot_success
    /\ Len(countries_data) = 2
    /\ countries_data[1].name = ExcludedName
    /\ countries_data[2].url = NoUrl
    /\ city_calls = <<0, 0>>

\* -------------------------------------------------------------- SpecRerun
\* The store path of two consecutive runs with --db-store and no --limit over
\* the same scraped data: every page operation returns, no database statement
\* raises.  snapshot_data holds what the site yields: each country with the
\* cities its scrape returns.

InitRerun ==
    /\ countries = {}
    /\ cities = {}
    /\ nextId = 1
    /\ clock = 0
    /\ is_sqlite \in BOOLEAN
    /\ last = NoCall
    /\ pc = "upsert"
    /\ limit = <<>>
    /\ db_store = TRUE
    /\ files = EmptyMap
    /\ browser = 1
    /\ open_browsers = {1}
    /\ launched = 1
    /\ countries_data \in ScrapedCountryLists \ {<<>>}
    /\ country_name_to_id = EmptyMap
    /\ snapshot_data \in
          { sd \in [1..Len(countries_data) ->
                      [country : {e.name : e \in ScrapedCountryEntries},
                       url : UrlOrNone, cities : ScrapedCityLists]] :
              \A i \in 1..Len(countries_data) :
                  /\ sd[i].country = countries_data[i].name
                  /\ sd[i].url = countries_data[i].url }
    /\ country_index = 0
    /\ attempt = 0
    /\ snapshot_success = FALSE
    /\ exit_code = 0
    /\ failure = "none"
    /\ pending_loss = "none"
    /\ country_calls = 1
    /\ country_err = "none"
    /\ city_calls = <<>>
    /\ exhausted = {}
    /\ last_err = "none"
    /\ wrote = FALSE
    /\ GIT_PUSH_ENABLED = FALSE
    /\ sync_calls = 0
    /\ unclosed = {}
    /\ delays = <<>>
    /\ NoJobs

\* lines 558-561 of a run: the country upsert commits
RerunUpsertCountries ==
    /\ pc = "upsert"
    /\ \E res \in upsert_countries_to_db(countries, countries_data, clock + 1, nextId,
                                         Len(countries_data) + 1) :
         /\ countries' = res.rows
         /\ nextId' = res.nextId
         /\ country_name_to_id' = res.map
    /\ clock' = clock + 1
    /\ country_index' = 1
    /\ pc' = "cities"
    /\ UNCHANGED <<cities, is_sqlite, last, limit, db_store, files, browser,
                   open_browsers, launched, countries_data, snapshot_data, attempt,
                   snapshot_success, exit_code, failure, pending_loss, country_calls,
                   country_err, city_calls, exhausted, last_err, wrote,
                   GIT_PUSH_ENABLED, sync_calls, unclosed, delays, jobVars>>

\* lines 584-613 of a run: one country of the loop, skipped or scraped at the
\* first attempt and its cities upserted
RerunCountry ==
    /\ pc = "cities"
    /\ country_index <= Len(countries_to_process)
    /\ LET country == countries_to_process[country_index]
           cities_data == snapshot_data[country_index].cities
           skip == \/ country.name \notin DOMAIN country_name_to_id
                   \/ country.url = NoUrl
                   \/ cities_data = <<>>
       IN IF skip
          THEN UNCHANGED <<cities, nextId, clock>>
          ELSE \E res \in upsert_cities_to_db(cities, countries, cities_data,
                                              country_name_to_id[country.name],
                                              clock + 1, nextId,
                                              Len(cities_data) + 1, is_sqlite) :
                 /\ cities' = res.rows
                 /\ nextId' = res.nextId
                 /\ clock' = clock + 1
    /\ country_index' = country_index + 1
    /\ UNCHANGED <<countries, is_sqlite, last, pc, limit, db_store, files, browser,
                   open_browsers, launched, countries_data, country_name_to_id,
                   snapshot_data, attempt, snapshot_success, exit_code, failure,
                   pending_loss, country_calls, country_err, city_calls, exhausted,
                   last_err, wrote,
                   GIT_PUSH_ENABLED, sync_calls, unclosed, delays, jobVars>>

\* the loop of a run has ended: after the first run the tables are recorded
\* and the second run starts; after the second run nothing follows
RerunEnds ==
    /\ pc = "cities"
    /\ country_index > Len(countries_to_process)
    /\ last' = [last EXCEPT !.op = "run", !.pass = @ + 1,
                            !.beforeCountries = IF last.pass = 0 THEN countries ELSE @,
                            !.beforeCities = IF last.pass = 0 THEN cities ELSE @]
    /\ pc' = IF last.pass = 0 THEN "upsert" ELSE "done"
    /\ country_index' = 0
    /\ country_name_to_id' = EmptyMap
    /\ UNCHANGED <<dbVars, limit, db_store, files, browser, open_browsers, launched,
                   countries_data, snapshot_data, attempt, snapshot_success,
                   exit_code, failure, pending_loss, country_calls, country_err,
                   city_calls, exhausted, last_err, wrote,
                   GIT_PUSH_ENABLED, sync_calls, unclosed, delays, jobVars>>

NextRerun ==
    \/ RerunUpsertCountries
    \/ RerunCountry
    \/ RerunEnds

SpecRerun == InitRerun /\ [][NextRerun]_vars

\* C7 as stated: after the second run over unchanged scraped data the Country
\* rows and the City rows are those that the first run left.
C7_RerunLeavesRowsUnchanged ==
    (pc = "done" /\ last.pass = 2) =>
        /\ countries = last.beforeCountries
        /\ cities = last.beforeCities

\* what the second run does keep: it creates no row
RerunCreatesNoRow ==
    (pc = "done" /\ last.pass = 2) =>
        /\ {r.id : r \in countries} = {r.id : r \in last.beforeCountries}
        /\ {r.id : r \in cities} = {r.id : r \in last.beforeCities}

\* -------------------------------------------------------------- SpecCrawl
\* scrape_countries called directly on a country directory page.  The page
\* is the sequence of its li elements in document order (sections and lists
\* flattened); an li is readable, or reading its anchor raises.  A page
\* operation outside the per-li try (goto, the locator calls between lists)
\* may raise after any number of li elements were handled.

\* most li elements of a page in SpecCrawl
MaxItems == 3

\* the li elements a page can hold
CountryLis == [name : {"Pakistan", "India"}, url : {"url1"}, readable : BOOLEAN]
CountryPages == SeqsUpTo(CountryLis, MaxItems)

CollectLiDiscards(collected, li) ==
    IF li.readable
    THEN Append(collected, [name |-> li.name, url |-> li.url])
    ELSE <<>>

\* lines 106-131: one li of the loop: the entry is appended, or the exception
\* of the anchor is caught and the loop continues with the next li
CollectLi(collected, li) ==
    IF li.readable
    THEN Append(collected, [name |-> li.name, url |-> li.url])
    ELSE collected

\* countries_data after the first k li elements
RECURSIVE CollectLis(_, _)
CollectLis(lis, k) ==
    IF k = 0 THEN <<>> ELSE CollectLi(CollectLis(lis, k - 1), lis[k])

\* lines 74-146: the loops run over all li elements, or an exception outside
\* the per-li try ends them after `handled` elements; the except of line 141
\* prints it and line 146 returns what was collected
scrape_countries_page(lis, raised, handled) ==
    CollectLis(lis, IF raised THEN handled ELSE Len(lis))

\* ------------------------------------------- wait_for_element_with_retry

\* most waits of one call of the Locator in SpecCrawl
MaxRetries == 3

\* element.wait_for(state="visible", timeout=wait_time): the element became
\* visible, PlaywrightTimeoutError, or another exception (the page or the
\* browser is gone)
WaitOutcomes == {"visible", "timeout", "error"}

SleepsAfterEvery(attempt_no, retries) == TRUE

\* line 47: after a timeout, sleep unless this was the last attempt_no
SleepsAfter(attempt_no, retries) == attempt_no < retries - 1

\* lines 41-53: the loop from attempt number attempt_no (0-based) on, when the successive
\* waits end as `outcomes`; slept holds the attempts followed by a sleep.
\* Only PlaywrightTimeoutError is caught; any other exception leaves the
\* function.
RECURSIVE WaitLoop(_, _, _, _)
WaitLoop(outcomes, retries, attempt_no, slept) ==
    IF attempt_no >= retries
    THEN [result |-> "None", raises |-> FALSE, waits |-> attempt_no, slept |-> slept]
    ELSE IF outcomes[attempt_no + 1] = "visible"
    THEN [result |-> "element", raises |-> FALSE, waits |-> attempt_no + 1, slept |-> slept]
    ELSE IF outcomes[attempt_no + 1] = "error"
    THEN [result |-> "None", raises |-> TRUE, waits |-> attempt_no + 1, slept |-> slept]
    ELSE IF SleepsAfter(attempt_no, retries)
    THEN WaitLoop(outcomes, retries, attempt_no + 1, slept \cup {attempt_no + 1})
    ELSE [result |-> "None", raises |-> FALSE, waits |-> attempt_no + 1, slept |-> slept]

wait_for_element_with_retry(outcomes, retries) ==
    WaitLoop(outcomes, retries, 0, {})

\* ------------------------------------------------------ href normalization
\* A string is the sequence of its characters; an Optional[str] is <<>> for
\* None and <<string>> otherwise.

\* "https://www.weather-forecast.com", the host written w
base_url == <<"h", "t", "t", "p", "s", ":", "/", "/", "w">>

\* the href attributes of an anchor in SpecCrawl: none, "", "/x", "x",
\* "https://w/x", "http://o/x", "httpx", "//o/x", "f://o/x"
Hrefs ==
    { <<>>,
      << <<>> >>,
      << <<"/", "x">> >>,
      << <<"x">> >>,
      << <<"h", "t", "t", "p", "s", ":", "/", "/", "w", "/", "x">> >>,
      << <<"h", "t", "t", "p", ":", "/", "/", "o", "/", "x">> >>,
      << <<"h", "t", "t", "p", "x">> >>,
      << <<"/", "/", "o", "/", "x">> >>,
      << <<"f", ":", "/", "/", "o", "/", "x">> >> }

\* str.startswith
StartsWith(str, prefix) ==
    /\ Len(str) >= Len(prefix)
    /\ SubSeq(str, 1, Len(prefix)) = prefix

\* urlparse(url).scheme is not empty: a ":" preceded by scheme characters only
HasScheme(url) ==
    \E k \in 2..Len(url) :
        /\ url[k] = ":"
        /\ \A j \in 1..(k - 1) : url[j] \notin {":", "/"}

\* the "scheme:" prefix of a url that has a scheme
SchemePrefix(url) ==
    LET k == CHOOSE i \in 2..Len(url) :
                 url[i] = ":" /\ \A j \in 1..(i - 1) : url[j] \notin {":", "/"}
    IN SubSeq(url, 1, k)

\* urllib.parse.urljoin(base, url) for a base with an empty path and a url
\* of Hrefs: an empty url gives the base; a url with a scheme is returned as
\* it is; "//..." takes the scheme of the base; "/..." replaces the path;
\* any other url is a path relative to the root
urljoin(base, url) ==
    IF url = <<>> THEN base
    ELSE IF HasScheme(url) THEN url
    ELSE IF StartsWith(url, <<"/", "/">>) THEN SchemePrefix(base) \o url
    ELSE IF StartsWith(url, <<"/">>) THEN base \o url
    ELSE base \o <<"/">> \o url

\* lines 116-122 (and 201-207, 296-302): full_url from href
ProcessUrl(href) ==
    IF href = <<>> \/ href[1] = <<>> THEN <<>>
    ELSE IF StartsWith(href[1], <<"h", "t", "t", "p">>) THEN href
    ELSE <<urljoin(base_url, href[1])>>

\* lines 112-127 (and 197-212, 292-307): the entry appended for an anchor
ExtractEntry(name, href) == [name |-> name, url |-> ProcessUrl(href)]

\* ------------------------------------------------ scrape_cities_for_country

\* most li elements of one results container, most per-letter pages
MaxCityItems == 2
MaxLetters == 2

\* wait_for_element_with_retry(page, ..., retries=3, wait_time=2000)
letter_nav_retries == 3
b_wrapper_retries == 3

\* how the waits for the alphabet navigation can end: never visible, visible
\* at the first, second or third wait, an exception at the first or second
NavProbes ==
    { <<"timeout", "timeout", "timeout">>,
      <<"visible", "timeout", "timeout">>,
      <<"timeout", "visible", "timeout">>,
      <<"timeout", "timeout", "visible">>,
      <<"error", "timeout", "timeout">>,
      <<"timeout", "error", "timeout">> }

\* how the waits for a results container can end
WrapperProbes ==
    { <<"timeout", "timeout", "timeout">>,
      <<"timeout", "visible", "timeout">>,
      <<"timeout", "timeout", "error">> }

\* the li elements of a results container: two cities, and an element whose
\* anchor cannot be read
CityLis ==
    { [name |-> "Lahore", url |-> "url1", readable |-> TRUE],
      [name |-> "Karachi", url |-> "url1", readable |-> TRUE],
      [name |-> "Lahore", url |-> "url1", readable |-> FALSE] }
CityLiLists == SeqsUpTo(CityLis, MaxCityItems)

\* the li elements of the results container of a per-letter page
LetterLiLists ==
    { <<>>,
      << [name |-> "Lahore", url |-> "url1", readable |-> TRUE] >>,
      << [name |-> "Karachi", url |-> "url1", readable |-> TRUE] >>,
      << [name |-> "Lahore", url |-> "url1", readable |-> FALSE],
         [name |-> "Karachi", url |-> "url1", readable |-> TRUE] >> }

\* a per-letter listing page, and a country page: its alphabet navigation
\* (if any) with the per-letter pages behind the links collected from it, in
\* the order of all_city_letter_links, and its own results container (if any)
LetterPages == [wrapper : WrapperProbes, lis : LetterLiLists]
CityPages ==
    [nav : NavProbes, wrapper : WrapperProbes, lis : CityLiLists,
     letters : SeqsUpTo(LetterPages, MaxLetters)]

RECURSIVE CollectCityLisReversed(_, _, _)
CollectCityLisReversed(collected, lis, k) ==
    IF k = 0 THEN collected
    ELSE CollectCityLisReversed(CollectLi(collected, lis[k]), lis, k - 1)

\* the first k li elements of one results container appended to cities_data
\* (lines 190-216 and 284-311)
RECURSIVE CollectCityLis(_, _, _)
CollectCityLis(collected, lis, k) ==
    IF k = 0 THEN collected
    ELSE CollectLi(CollectCityLis(collected, lis, k - 1), lis[k])

\* lines 172-219, Variant A: the results container of the country page
VariantA(page, path) ==
    LET b_wrapper == wait_for_element_with_retry(page.wrapper, b_wrapper_retries)
        probed == Append(path, "A: wait b-wrapper")
    IN IF b_wrapper.raises
       THEN [raises |-> TRUE, cities_data |-> <<>>, path |-> probed,
             visited |-> <<>>]
       ELSE IF b_wrapper.result = "None"
       THEN [raises |-> FALSE, cities_data |-> <<>>, path |-> probed,
             visited |-> <<>>]
       ELSE [raises |-> FALSE,
             cities_data |-> CollectCityLis(<<>>, page.lis, Len(page.lis)),
             path |-> Append(probed, "A: li elements"),
             visited |-> <<>>]

RECURSIVE LetterLoopStopsAtMissing(_, _, _, _, _)
LetterLoopStopsAtMissing(letters, k, collected, path, visited) ==
    IF k > Len(letters)
    THEN [raises |-> FALSE, cities_data |-> collected, path |-> path,
          visited |-> visited]
    ELSE LET b_wrapper == wait_for_element_with_retry(letters[k].wrapper,
                                                      b_wrapper_retries)
             probed == path \o <<"B: goto letter", "B: wait b-wrapper">>
         IN IF b_wrapper.raises
            THEN [raises |-> TRUE, cities_data |-> <<>>, path |-> probed,
                  visited |-> Append(visited, k)]
            ELSE IF b_wrapper.result = "None"
            THEN [raises |-> FALSE, cities_data |-> collected, path |-> probed,
                  visited |-> Append(visited, k)]
            ELSE LetterLoopStopsAtMissing(letters, k + 1,
                            CollectCityLis(collected, letters[k].lis,
                                           Len(letters[k].lis)),
                            Append(probed, "B: li elements"),
                            Append(visited, k))

\* lines 264-315, Variant B: the per-letter pages from the k-th on; visited
\* holds the positions in all_city_letter_links of the pages gone to
RECURSIVE LetterLoop(_, _, _, _, _)
LetterLoop(letters, k, collected, path, visited) ==
    IF k > Len(letters)
    THEN [raises |-> FALSE, cities_data |-> collected, path |-> path,
          visited |-> visited]
    ELSE LET b_wrapper == wait_for_element_with_retry(letters[k].wrapper,
                                                      b_wrapper_retries)
             probed == path \o <<"B: goto letter", "B: wait b-wrapper">>
         IN IF b_wrapper.raises
            THEN [raises |-> TRUE, cities_data |-> <<>>, path |-> probed,
                  visited |-> Append(visited, k)]
            ELSE IF b_wrapper.result = "None"
            THEN LetterLoop(letters, k + 1, collected, probed, Append(visited, k))
            ELSE LetterLoop(letters, k + 1,
                            CollectCityLis(collected, letters[k].lis,
                                           Len(letters[k].lis)),
                            Append(probed, "B: li elements"),
                            Append(visited, k))

\* lines 221-319, Variant B: the links of the navigation, then their pages
VariantB(page, path) ==
    LetterLoop(page.letters, 1, <<>>, Append(path, "B: letter links"), <<>>)

\* most lower-register rows of the navigation table
MaxRows == 2

\* the anchors of one cell of the navigation table, each given by its href:
\* no anchor; "/a"; an anchor without href and "/b"; "https://w/c" and "/a"
NavCells ==
    { <<>>,
      << << <<"/", "a">> >> >>,
      << <<>>, << <<"/", "b">> >> >>,
      << << <<"h", "t", "t", "p", "s", ":", "/", "/", "w", "/", "c">> >>,
         << <<"/", "a">> >> >> }

\* a tr of class lower: its td cells other than the label cell (left_part),
\* or a row whose cells cannot be located (the locator raises)
NavRows ==
    { [broken |-> TRUE, cells |-> <<>>],
      [broken |-> FALSE, cells |-> <<>>],
      [broken |-> FALSE, cells |-> << << << <<"/", "a">> >> >> >>],
      [broken |-> FALSE, cells |-> << << <<>>, << <<"/", "b">> >> >> >>],
      [broken |-> FALSE,
       cells |-> << << << <<"/", "a">> >> >>, << <<>>, << <<"/", "b">> >> >> >>],
      [broken |-> FALSE,
       cells |-> << <<>>,
                    << << <<"h", "t", "t", "p", "s", ":", "/", "/", "w", "/", "c">> >>,
                       << <<"/", "a">> >> >> >>] }
NavTables == SeqsUpTo(NavRows, MaxRows)

\* lines 249-256: the links of the first k anchors of a cell; an anchor
\* without href adds nothing
RECURSIVE AnchorLinks(_, _)
AnchorLinks(anchors, k) ==
    IF k = 0 THEN <<>>
    ELSE AnchorLinks(anchors, k - 1) \o ProcessUrl(anchors[k])

\* lines 232-260: the links one row adds; only tds[0] is looked at, and the
\* exception of a row is caught
RowLinks(tr) ==
    IF tr.broken THEN <<>>
    ELSE IF tr.cells = <<>> THEN <<>>
    ELSE LET target_td == tr.cells[1]
         IN AnchorLinks(target_td, Len(target_td))

\* lines 228-262: all_city_letter_links after the first k rows
RECURSIVE CollectLetterLinks(_, _)
CollectLetterLinks(lower_trs, k) ==
    IF k = 0 THEN <<>>
    ELSE CollectLetterLinks(lower_trs, k - 1) \o RowLinks(lower_trs[k])

UsesVariantAAlways(letter_nav) == TRUE

\* line 172: if not letter_nav
UsesVariantA(letter_nav) == letter_nav.result = "None"

\* scrape_cities_for_country(page, country_url, country_name): the result,
\* or the exception of a wait, and the operations made on the page
scrape_cities_for_country(page) ==
    LET letter_nav == wait_for_element_with_retry(page.nav, letter_nav_retries)
        path == <<"goto country", "wait letter_nav">>
    IN IF letter_nav.raises
       THEN [raises |-> TRUE, cities_data |-> <<>>, path |-> path,
             visited |-> <<>>]
       ELSE IF UsesVariantA(letter_nav)
       THEN VariantA(page, path)
       ELSE VariantB(page, path)

InitCrawl ==
    /\ countries = {}
    /\ cities = {}
    /\ nextId = 1
    /\ clock = 0
    /\ is_sqlite = TRUE
    /\ last = [op |-> "none", lis |-> <<>>, raised |-> FALSE, handled |-> 0]
    /\ NoRun

\* Each behaviour of SpecCrawl makes one call of one function of the crawler.

\* countries_data = scrape_countries(page)
CallScrapeCountries ==
    /\ last.op = "none"
    /\ \E lis \in CountryPages, raised \in BOOLEAN :
         \E handled \in (IF raised THEN 0..Len(lis) ELSE {Len(lis)}) :
           /\ countries_data' = scrape_countries_page(lis, raised, handled)
           /\ last' = [op |-> "scrape_countries", lis |-> lis, raised |-> raised,
                       handled |-> handled]
    /\ UNCHANGED <<dbVars, pc, limit, db_store, files, browser, open_browsers,
                   launched, country_name_to_id, snapshot_data, country_index,
                   attempt, snapshot_success, exit_code, failure, pending_loss,
                   country_calls, country_err, city_calls, exhausted, last_err, wrote,
                   GIT_PUSH_ENABLED, sync_calls, unclosed, delays, jobVars>>

\* wait_for_element_with_retry(page, xpath, retries, wait_time) called
CallWaitForElement ==
    /\ last.op = "none"
    /\ \E outcomes \in [1..MaxRetries -> WaitOutcomes], retries \in 0..MaxRetries :
         last' = [op |-> "wait_for_element_with_retry", outcomes |-> outcomes,
                  retries |-> retries,
                  res |-> wait_for_element_with_retry(outcomes, retries)]
    /\ UNCHANGED <<dbVars, runVars, jobVars>>

\* the entry of one anchor, in the country crawler or in the city crawler
CallExtractEntry ==
    /\ last.op = "none"
    /\ \E name \in {"Pakistan", "Lahore"}, href \in Hrefs :
         last' = [op |-> "extract", name |-> name, href |-> href,
                  entry |-> ExtractEntry(name, href)]
    /\ UNCHANGED <<dbVars, runVars, jobVars>>

\* scrape_cities_for_country(page, ...) called on a country page
CallScrapeCities ==
    /\ last.op = "none"
    /\ \E page \in CityPages :
         last' = [op |-> "scrape_cities_for_country", page |-> page,
                  res |-> scrape_cities_for_country(page)]
    /\ UNCHANGED <<dbVars, runVars, jobVars>>

\* the link collection of Variant B on a navigation table
CallCollectLetterLinks ==
    /\ last.op = "none"
    /\ \E lower_trs \in NavTables :
         last' = [op |-> "letter links", lower_trs |-> lower_trs,
                  links |-> CollectLetterLinks(lower_trs, Len(lower_trs))]
    /\ UNCHANGED <<dbVars, runVars, jobVars>>

NextCrawl ==
    \/ CallCollectLetterLinks
    \/ CallScrapeCountries
    \/ CallWaitForElement
    \/ CallExtractEntry
    \/ CallScrapeCities

SpecCrawl == InitCrawl /\ [][NextCrawl]_vars

\* the positions of the readable li elements handled by the last call
ReadableHandled == {i \in 1..last.handled : last.lis[i].readable}

\* C20: scrape_countries returns exactly the entries of the readable li
\* elements that were handled before the exception (all of them when none
\* was raised), in page order: an unreadable li drops only itself, and an
\* exception does not discard what was collected.
C20_PartialResultIsReturned ==
    last.op = "scrape_countries" =>
        /\ Len(countries_data) = Cardinality(ReadableHandled)
        /\ \E f \in [1..Len(countries_data) -> ReadableHandled] :
              /\ \A i, j \in 1..Len(countries_data) : i < j => f[i] < f[j]
              /\ \A i \in 1..Len(countries_data) :
                    /\ countries_data[i].name = last.lis[f[i]].name
                    /\ countries_data[i].url = last.lis[f[i]].url

\* C20 witness: the first li was unreadable, the second was read, then an
\* exception ended the scrape before the third: one entry is returned
C20_Witness ==
    /\ last.op = "scrape_countries"
    /\ last.raised
    /\ Len(last.lis) = 3
    /\ last.handled = 2
    /\ ~last.lis[1].readable
    /\ last.lis[2].readable
    /\ Len(countries_data) = 1
    /\ countries_data[1].name = last.lis[2].name

\* C21 as stated: the entry of an anchor keeps its name; a missing (or empty)
\* href gives a null url, an href with a scheme passes through unchanged, and
\* every other href is resolved against the base url.
C21_HrefNormalization ==
    last.op = "extract" =>
        /\ last.entry.name = last.name
        /\ (last.href = <<>> \/ last.href[1] = <<>>) => last.entry.url = <<>>
        /\ (last.href # <<>> /\ last.href[1] # <<>>) =>
              IF HasScheme(last.href[1])
              THEN last.entry.url = last.href
              ELSE last.entry.url = <<urljoin(base_url, last.href[1])>>

\* the waits of the last Locator call that did not time out, among those
\* its retries allow
Decisive ==
    {k \in 1..last.retries : last.outcomes[k] # "timeout"}
FirstDecisive == CHOOSE k \in Decisive : \A j \in Decisive : k <= j

\* what the Locator does apart from raising: at most `retries` waits, the
\* element at the first wait that succeeds, not-found after `retries`
\* timeouts, a sleep after every timed-out wait but the last possible one
LocatorWaitsAndSleeps ==
    /\ last.res.waits <= last.retries
    /\ IF Decisive # {}
       THEN /\ last.res.waits = FirstDecisive
            /\ last.res.slept = 1..(FirstDecisive - 1)
            /\ last.outcomes[FirstDecisive] = "visible" =>
                  (last.res.result = "element" /\ ~last.res.raises)
       ELSE /\ last.res.waits = last.retries
            /\ last.res.slept = 1..(last.retries - 1)
            /\ last.res.result = "None"
            /\ ~last.res.raises

NavExposed ==
    \E k \in 1..letter_nav_retries :
        /\ last.page.nav[k] = "visible"
        /\ \A j \in 1..(k - 1) : last.page.nav[j] = "timeout"
NavAbsent == \A k \in 1..letter_nav_retries : last.page.nav[k] = "timeout"

StepsOfA == {"A: wait b-wrapper", "A: li elements"}
StepsOfB == {"B: letter links", "B: goto letter", "B: wait b-wrapper", "B: li elements"}
StepsDone == {last.res.path[i] : i \in 1..Len(last.res.path)}

\* C22: a page whose alphabet navigation is found is processed by the steps
\* of Variant B and by none of Variant A; a page without it by the steps of
\* Variant A and by none of Variant B; when the probe raises neither runs.
C22_VariantsAreExclusive ==
    last.op = "scrape_cities_for_country" =>
        /\ NavExposed => (StepsDone \cap StepsOfA = {} /\ "B: letter links" \in StepsDone)
        /\ NavAbsent => (StepsDone \cap StepsOfB = {} /\ "A: wait b-wrapper" \in StepsDone)
        /\ (~NavExposed /\ ~NavAbsent) =>
              (last.res.raises /\ StepsDone \cap (StepsOfA \cup StepsOfB) = {})

\* C22 witness: a page with an alphabet navigation (visible at the second
\* wait) and a readable results container of its own yielded the cities of
\* its letter page
C22_Witness ==
    /\ last.op = "scrape_cities_for_country"
    /\ last.page.nav = <<"timeout", "visible", "timeout">>
    /\ last.page.wrapper = <<"timeout", "visible", "timeout">>
    /\ Len(last.page.lis) = 1
    /\ last.page.lis[1].readable
    /\ Len(last.page.letters) = 1
    /\ ~last.res.raises
    /\ Len(last.res.cities_data) = 1
    /\ "B: li elements" \in StepsDone

\* the container of the country page of the last call never became visible /
\* became visible at one of the waits
ContainerAbsent ==
    \A k \in 1..b_wrapper_retries : last.page.wrapper[k] = "timeout"
ContainerPresent ==
    \E k \in 1..b_wrapper_retries :
        /\ last.page.wrapper[k] = "visible"
        /\ \A j \in 1..(k - 1) : last.page.wrapper[j] = "timeout"

\* the records of the li elements of a list that can be read, in page order
ReadableRecords(lis) ==
    LET CanBeRead(li) == li.readable
        kept == SelectSeq(lis, CanBeRead)
    IN [i \in 1..Len(kept) |-> [name |-> kept[i].name, url |-> kept[i].url]]

\* C31: on a page without alphabet navigation, an absent results container
\* gives the empty list without an exception, and a present one gives one
\* record per readable list item, in page order.
C31_VariantAResult ==
    (last.op = "scrape_cities_for_country" /\ NavAbsent) =>
        /\ ContainerAbsent => (last.res.cities_data = <<>> /\ ~last.res.raises)
        /\ ContainerPresent =>
              (~last.res.raises /\ last.res.cities_data = ReadableRecords(last.page.lis))

\* C31 witness: a container with two readable items gave two records in order
C31_Witness ==
    /\ last.op = "scrape_cities_for_country"
    /\ NavAbsent
    /\ ContainerPresent
    /\ Len(last.page.lis) = 2
    /\ last.page.lis[1].name = "Karachi" /\ last.page.lis[1].readable
    /\ last.page.lis[2].name = "Lahore" /\ last.page.lis[2].readable
    /\ last.res.cities_data =
         << [name |-> "Karachi", url |-> "url1"], [name |-> "Lahore", url |-> "url1"] >>

\* the cities of the first k letter pages that had a container, concatenated
RECURSIVE CitiesOfLetters(_, _)
CitiesOfLetters(letters, k) ==
    IF k = 0 THEN <<>>
    ELSE CitiesOfLetters(letters, k - 1) \o
         (IF \A j \in 1..b_wrapper_retries : letters[k].wrapper[j] = "timeout"
          THEN <<>>
          ELSE ReadableRecords(letters[k].lis))

\* C32: with an alphabet navigation, the per-letter pages are visited in the
\* order of the collected links, each once; a page without container is
\* skipped and the traversal goes on; without an exception every page is
\* visited and the result is the concatenation, in visit order, of the cities
\* of the pages that had a container.
C32_VariantBTraversal ==
    (last.op = "scrape_cities_for_country" /\ NavExposed) =>
        /\ last.res.visited = [i \in 1..Len(last.res.visited) |-> i]
        /\ Len(last.res.visited) <= Len(last.page.letters)
        /\ ~last.res.raises =>
              /\ Len(last.res.visited) = Len(last.page.letters)
              /\ last.res.cities_data =
                    CitiesOfLetters(last.page.letters, Len(last.page.letters))

\* C32 witness: the first letter page had no container, the second one gave
\* its city
C32_Witness ==
    /\ last.op = "scrape_cities_for_country"
    /\ NavExposed
    /\ Len(last.page.letters) = 2
    /\ \A j \in 1..b_wrapper_retries : last.page.letters[1].wrapper[j] = "timeout"
    /\ last.res.visited = <<1, 2>>
    /\ ~last.res.raises
    /\ last.res.cities_data = << [name |-> "Karachi", url |-> "url1"] >>

\* the absolute urls of the anchors with an href of all cells of a row, and
\* of the first k rows of a table
RECURSIVE LinksOfCells(_, _)
LinksOfCells(cells, k) ==
    IF k = 0 THEN <<>>
    ELSE LinksOfCells(cells, k - 1) \o
         LET hrefs == SelectSeq(cells[k], LAMBDA h : h # <<>>)
         IN [i \in 1..Len(hrefs) |-> urljoin(base_url, hrefs[i][1])]
RECURSIVE LinksOfRows(_, _)
LinksOfRows(rows, k) ==
    IF k = 0 THEN <<>>
    ELSE LinksOfRows(rows, k - 1) \o
         (IF rows[k].broken THEN <<>>
          ELSE LinksOfCells(rows[k].cells, Len(rows[k].cells)))

\* C33 as stated: every anchor with an href in any non-label cell of a
\* lower-register row (that can be read) contributes one absolute url, in
\* page order.
C33_LinksOfAllCells ==
    last.op = "letter links" =>
        last.links = LinksOfRows(last.lower_trs, Len(last.lower_trs))

\* --------------------------------------------------------------- SpecRead
\* The weather job (cities_weather/scrape_cities_weather.py) reading the
\* cities of one country: from the relational store, and from the snapshot
\* directory when the store gave none. Each behaviour makes one call.

\* the paths the snapshot directory can hold
ReadPaths == TodaysPriorFiles \cup {EarlierArtifact}

\* a file of the directory: whether json.load reads it, and what it reads
FileContents ==
    { [readable |-> TRUE,
       data |-> << [country |-> "Pakistan", url |-> "url1",
                    cities |-> << [name |-> "Lahore", url |-> "url1"] >>] >>],
      [readable |-> TRUE,
       data |-> << [country |-> "Pakistan", url |-> "url1",
                    cities |-> << [name |-> "Lahore", url |-> "url2"] >>] >>],
      [readable |-> TRUE,
       data |-> << [country |-> "Pakistan", url |-> "url1", cities |-> <<>>],
                   [country |-> "India", url |-> "url1",
                    cities |-> << [name |-> "Lahore", url |-> "url1"] >>] >>],
      [readable |-> TRUE,
       data |-> << [country |-> "India", url |-> "url1", cities |-> <<>>],
                   [country |-> "India", url |-> "url1",
                    cities |-> << [name |-> "Lahore", url |-> "url1"] >>] >>],
      [readable |-> TRUE, data |-> <<>>],
      [readable |-> FALSE, data |-> <<>>] }

\* data/snapshots/scrape_countries_cities: missing, or holding some files
SnapshotDirs ==
    {[exists |-> FALSE, files |-> EmptyMap]} \cup
    { [exists |-> TRUE, files |-> fs]
        : fs \in UNION {[S -> FileContents] : S \in SUBSET ReadPaths} }

\* snapshot_dir.glob("*.json")
GlobJson(fs) == {f \in DOMAIN fs : f.rest = "_countries_cities.json"}

\* the order of two paths as strings: the date is the prefix of the name
PathLessEq(f, g) == f.date = g.date \/ (f.date = EarlierDate /\ g.date = current_date)

ComesFirstAscending(f, g) == PathLessEq(f, g)

\* sorted(..., reverse=True): f is placed before g
ComesFirst(f, g) == PathLessEq(g, f)

\* sorted(paths, reverse=True)
RECURSIVE SortedReverse(_)
SortedReverse(paths) ==
    IF paths = {} THEN <<>>
    ELSE LET first == CHOOSE f \in paths : \A g \in paths : ComesFirst(f, g)
         IN <<first>> \o SortedReverse(paths \ {first})

\* lines 128-132: the loop over snapshot_data from its k-th entry, which
\* stops at the first entry of the country
RECURSIVE FindCountry(_, _, _)
FindCountry(data, country_name, k) ==
    IF k > Len(data) THEN <<>>
    ELSE IF data[k].country = country_name THEN data[k].cities
    ELSE FindCountry(data, country_name, k + 1)

\* get_cities_from_snapshot(country_name), lines 94-142; every exception is
\* caught (line 137) and the list, still empty, is returned
get_cities_from_snapshot(dir, country_name) ==
    IF ~dir.exists THEN <<>>
    ELSE LET snapshot_files == SortedReverse(GlobJson(dir.files))
         IN IF snapshot_files = <<>> THEN <<>>
            ELSE LET latest_snapshot == snapshot_files[1]
                 IN IF ~dir.files[latest_snapshot].readable THEN <<>>
                    ELSE FindCountry(dir.files[latest_snapshot].data,
                                     country_name, 1)

\* the rows of a query as a list, in the order the database returns them
RECURSIVE RowsToList(_)
RowsToList(rows) ==
    IF rows = {} THEN <<>>
    ELSE LET r == CHOOSE x \in rows : TRUE
         IN <<[name |-> r.name, url |-> r.url]>> \o RowsToList(rows \ {r})

\* get_cities_from_db(country_name), lines 41-91, on a store with at most
\* one country of a name; a database error is caught and gives the empty list
get_cities_from_db(country_rows, city_rows, country_name, db_error) ==
    IF db_error THEN <<>>
    ELSE IF ~\E c \in country_rows : c.name = country_name THEN <<>>
    ELSE LET country == CHOOSE c \in country_rows : c.name = country_name
         IN RowsToList({ci \in city_rows : ci.country_id = country.id})

\* line 311: if not cities_data
ConsultsSnapshot(cities_data) == cities_data = <<>>

InitRead ==
    /\ countries \in {{}, {CountryModel(1, [name |-> "Pakistan", url |-> "url1"], 0)}}
    /\ cities \in {{}, {CityModel(2, [name |-> "Lahore", url |-> "url1"], 1, 0)}}
    /\ nextId = 3
    /\ clock = 0
    /\ is_sqlite = TRUE
    /\ last = [op |-> "none"]
    /\ NoRun

\* get_cities_from_snapshot(country_name) called
CallGetCitiesFromSnapshot ==
    /\ last.op = "none"
    /\ \E dir \in SnapshotDirs, country_name \in {"Pakistan", "India"} :
         last' = [op |-> "get_cities_from_snapshot", dir |-> dir,
                  country_name |-> country_name, consulted |-> TRUE,
                  from_snapshot |-> get_cities_from_snapshot(dir, country_name)]
    /\ UNCHANGED <<dbVars, runVars, jobVars>>

\* scrape_cities_weather_main, lines 304-317: the cities of one country
WeatherJobCountry ==
    /\ last.op = "none"
    /\ \E dir \in SnapshotDirs, country_name \in {"Pakistan", "India"},
          db_error \in BOOLEAN :
         LET from_db == get_cities_from_db(countries, cities, country_name, db_error)
             consulted == ConsultsSnapshot(from_db)
             from_snapshot == IF consulted
                              THEN get_cities_from_snapshot(dir, country_name)
                              ELSE <<>>
         IN last' = [op |-> "weather job", dir |-> dir,
                     country_name |-> country_name, from_db |-> from_db,
                     consulted |-> consulted, from_snapshot |-> from_snapshot,
                     cities_data |-> IF consulted THEN from_snapshot ELSE from_db]
    /\ UNCHANGED <<dbVars, runVars, jobVars>>

NextRead ==
    \/ CallGetCitiesFromSnapshot
    \/ WeatherJobCountry

SpecRead == InitRead /\ [][NextRead]_vars

\* the dated artifacts of the directory of the last call, the most recent of
\* them, and the positions of the entries of the country in it
ArtifactsRead ==
    IF last.dir.exists
    THEN {f \in DOMAIN last.dir.files : f.rest = "_countries_cities.json"}
    ELSE {}
MostRecentRead ==
    CHOOSE f \in ArtifactsRead :
        \A g \in ArtifactsRead : g = f \/ g.date = EarlierDate
EntriesRead ==
    {k \in 1..Len(last.dir.files[MostRecentRead].data) :
        last.dir.files[MostRecentRead].data[k].country = last.country_name}

\* C24: the snapshot read returns the city list of the (first) entry of the
\* country in the most recent dated artifact, and the empty list when the
\* directory, the artifact or the entry is absent or the artifact cannot be
\* read; the weather job consults the snapshot exactly when the store gave no
\* city, and uses the store's cities otherwise.
C24_SnapshotReadFallback ==
    /\ (last.op \in {"get_cities_from_snapshot", "weather job"} /\ last.consulted) =>
          IF ArtifactsRead = {} THEN last.from_snapshot = <<>>
          ELSE IF ~last.dir.files[MostRecentRead].readable THEN last.from_snapshot = <<>>
          ELSE IF EntriesRead = {} THEN last.from_snapshot = <<>>
          ELSE \E k \in EntriesRead :
                  /\ \A j \in EntriesRead : k <= j
                  /\ last.from_snapshot = last.dir.files[MostRecentRead].data[k].cities
    /\ last.op = "weather job" =>
          /\ last.consulted <=> (last.from_db = <<>>)
          /\ last.cities_data = IF last.consulted THEN last.from_snapshot
                                 ELSE last.from_db

\* C24 witness: the store held no city of Pakistan, the directory held the
\* artifacts of two days with different cities, and the job took the cities
\* of the more recent one
C24_Witness ==
    /\ last.op = "weather job"
    /\ last.country_name = "Pakistan"
    /\ last.from_db = <<>>
    /\ last.consulted
    /\ last.dir.exists
    /\ {EarlierArtifact, snapshot_file_path} \subseteq DOMAIN last.dir.files
    /\ last.dir.files[EarlierArtifact].readable
    /\ last.dir.files[EarlierArtifact].data # last.dir.files[snapshot_file_path].data
    /\ EarlierArtifact.date # MostRecentRead.date
    /\ last.cities_data = << [name |-> "Lahore", url |-> "url2"] >>

\* --------------------------------------------------------------- SpecIdem
\* idempotent_once (app/utils/idempotency.py) entered by two threads.  Every
\* database statement is one step and sees the rows committed so far; the
\* statements are taken to succeed, except the INSERT that violates the
\* unique constraint (name, idempotency_key) of TaskRun.

\* entries into idempotent_once in one behaviour
MaxEntries == 3

Threads == {1, 2}
JobName == "import_data"
IdemKeys == {"import_v1", "import_v2"}

\* how the guarded body ends: it returns, it raises an Exception, it raises a
\* BaseException that is no Exception (SystemExit, KeyboardInterrupt)
BodyOutcomes == {"returns", "raises", "exits"}

\* lines 53-59: TaskRun(name=..., idempotency_key=..., status="processing")
TaskRun(name, idempotency_key) ==
    [name |-> name, idempotency_key |-> idempotency_key,
     status |-> "processing", last_error |-> "None"]

\* the rows of a (name, key)
RowsOf(rows, name, idempotency_key) ==
    {r \in rows : r.name = name /\ r.idempotency_key = idempotency_key}

\* lines 35-39 and 108-112: the query for a row of the key with status success
SuccessRun(rows, name, idempotency_key) ==
    {r \in RowsOf(rows, name, idempotency_key) : r.status = "success"}

\* check_idempotency(name, idempotency_key), lines 93-116
check_idempotency(rows, name, idempotency_key) ==
    SuccessRun(rows, name, idempotency_key) # {}

\* the UPDATE a commit sends for the loaded row: the status, and last_error
\* when it was assigned (err # <<>>)
UpdateRun(rows, name, idempotency_key, status, err) ==
    { IF r.name = name /\ r.idempotency_key = idempotency_key
      THEN [r EXCEPT !.status = status,
                     !.last_error = IF err = <<>> THEN @ ELSE err[1]]
      ELSE r : r \in rows }

IdleThread == [pc |-> "idle", key |-> "none", found |-> FALSE]

InitIdem ==
    /\ countries = {}
    /\ cities = {}
    /\ nextId = 1
    /\ clock = 0
    /\ is_sqlite = TRUE
    /\ last = [op |-> "none"]
    /\ pc = "idle"
    /\ limit = <<>>
    /\ db_store = FALSE
    /\ files = EmptyMap
    /\ browser = 0
    /\ open_browsers = {}
    /\ launched = 0
    /\ countries_data = <<>>
    /\ country_name_to_id = EmptyMap
    /\ snapshot_data = <<>>
    /\ country_index = 0
    /\ attempt = 0
    /\ snapshot_success = FALSE
    /\ exit_code = 0
    /\ failure = "none"
    /\ pending_loss = "none"
    /\ country_calls = 0
    /\ country_err = "none"
    /\ city_calls = <<>>
    /\ exhausted = {}
    /\ last_err = "none"
    /\ wrote = FALSE
    /\ GIT_PUSH_ENABLED = FALSE
    /\ sync_calls = 0
    /\ unclosed = {}
    /\ delays = <<>>
    /\ task_runs = {}
    /\ threads = [t \in Threads |-> IdleThread]
    /\ body_log = <<>>
    /\ entries = 0
    /\ _scheduler = 0
    /\ schedulers = <<>>
    /\ scheduler_calls = <<>>

\* lines 33-44: thread t enters with a key; when a success row exists the
\* generator returns without yielding and the with statement raises
\* RuntimeError: the body is not executed
Enter(t) ==
    /\ threads[t].pc = "idle"
    /\ entries < MaxEntries
    /\ entries' = entries + 1
    /\ \E key \in IdemKeys :
         IF SuccessRun(task_runs, JobName, key) # {}
         THEN /\ body_log' = Append(body_log, [thread |-> t, key |-> key, ev |-> "skipped"])
              /\ UNCHANGED threads
         ELSE /\ threads' = [threads EXCEPT ![t] = [pc |-> "lookup", key |-> key,
                                                    found |-> FALSE]]
              /\ UNCHANGED body_log
    /\ UNCHANGED <<dbVars, last, runVars, task_runs, schedVars>>

\* lines 47-50: the query for the row of the key, whatever its status
Lookup(t) ==
    /\ threads[t].pc = "lookup"
    /\ threads' = [threads EXCEPT
                     ![t].pc = "commit",
                     ![t].found = RowsOf(task_runs, JobName, threads[t].key) # {}]
    /\ UNCHANGED <<dbVars, last, runVars, task_runs, body_log, entries, schedVars>>

\* lines 52-70: the row is added or set back to "processing", the commit,
\* the yield.  The INSERT of a key that another thread has inserted meanwhile
\* raises IntegrityError: the except block finds nothing to write and
\* re-raises, the body is not executed.
CommitProcessing(t) ==
    /\ threads[t].pc = "commit"
    /\ LET key == threads[t].key
       IN IF ~threads[t].found /\ RowsOf(task_runs, JobName, key) # {}
          THEN /\ threads' = [threads EXCEPT ![t] = IdleThread]
               /\ body_log' = Append(body_log, [thread |-> t, key |-> key,
                                                ev |-> "integrity_error"])
               /\ UNCHANGED task_runs
          ELSE /\ task_runs' = IF threads[t].found
                               THEN UpdateRun(task_runs, JobName, key, "processing",
                                              <<"None">>)
                               ELSE task_runs \cup {TaskRun(JobName, key)}
               /\ threads' = [threads EXCEPT ![t].pc = "body"]
               /\ body_log' = Append(body_log, [thread |-> t, key |-> key,
                                                ev |-> "start"])
    /\ UNCHANGED <<dbVars, last, runVars, entries, schedVars>>

\* lines 72-90: the body ends.  It returned: status "success"; it raised an
\* Exception: status "failed", last_error, re-raise; any other exception
\* passes `except Exception` and leaves the row as it is.
BodyEnds(t) ==
    /\ threads[t].pc = "body"
    /\ \E outcome \in BodyOutcomes :
         /\ task_runs' =
              IF outcome = "returns"
              THEN UpdateRun(task_runs, JobName, threads[t].key, "success", <<>>)
              ELSE IF outcome = "raises"
              THEN UpdateRun(task_runs, JobName, threads[t].key, "failed", <<"error">>)
              ELSE task_runs
         /\ body_log' = Append(body_log, [thread |-> t, key |-> threads[t].key,
                                          ev |-> outcome])
    /\ threads' = [threads EXCEPT ![t] = IdleThread]
    /\ UNCHANGED <<dbVars, last, runVars, entries, schedVars>>

NextIdem ==
    \E t \in Threads :
        \/ Enter(t)
        \/ Lookup(t)
        \/ CommitProcessing(t)
        \/ BodyEnds(t)

SpecIdem == InitIdem /\ [][NextIdem]_vars

\* the status of the row of a key ("absent" without a row), and whether a
\* body of the key has returned
StatusOf(rows, key) ==
    IF RowsOf(rows, JobName, key) = {} THEN "absent"
    ELSE (CHOOSE r \in RowsOf(rows, JobName, key) : TRUE).status
BodyCompleted(key) ==
    \E i \in 1..Len(body_log) : body_log[i].key = key /\ body_log[i].ev = "returns"

\* C35 as stated: after a body of a (name, key) has returned, no body of that
\* key starts again, and check_idempotency is true for exactly the keys whose
\* body has returned.
C35_BodyRunsOnlyOnce ==
    /\ \A i, j \in 1..Len(body_log) :
          (i < j /\ body_log[i].key = body_log[j].key /\ body_log[i].ev = "returns")
              => body_log[j].ev # "start"
    /\ \A key \in IdemKeys :
          check_idempotency(task_runs, JobName, key) <=> BodyCompleted(key)

\* C36 as stated: the row is "processing" while the body runs; it becomes
\* "success" only in the step in which its body returns; the step in which
\* the body raises makes it "failed" with last_error set; a "success" row
\* never changes again.
C36_StatusProtocol ==
    /\ [](\A t \in Threads :
            threads[t].pc = "body" => StatusOf(task_runs, threads[t].key) = "processing")
    /\ [][\A key \in IdemKeys :
            (StatusOf(task_runs, key) # "success" /\ StatusOf(task_runs', key) = "success")
                => /\ Len(body_log') = Len(body_log) + 1
                   /\ body_log'[Len(body_log')].key = key
                   /\ body_log'[Len(body_log')].ev = "returns"]_vars
    /\ [][(Len(body_log') = Len(body_log) + 1
            /\ body_log'[Len(body_log')].ev \in {"raises", "exits"})
                => \E r \in RowsOf(task_runs', JobName, body_log'[Len(body_log')].key) :
                      r.status = "failed" /\ r.last_error # "None"]_vars
    /\ [][\A key \in IdemKeys :
            StatusOf(task_runs, key) = "success" => StatusOf(task_runs', key) = "success"]_vars

\* C37 as stated: two threads never execute the body of the same (name, key)
\* at the same time, and the body of a key never returns twice.
C37_AtMostOneThreadRunsBody ==
    /\ \A t1, t2 \in Threads :
          (t1 # t2 /\ threads[t1].pc = "body" /\ threads[t2].pc = "body")
              => threads[t1].key # threads[t2].key
    /\ \A i, j \in 1..Len(body_log) :
          (i < j /\ body_log[i].key = body_log[j].key /\ body_log[i].ev = "returns")
              => body_log[j].ev # "returns"

\* -------------------------------------------------------------- SpecSched
\* The module global _scheduler of jobs/scheduler.py under calls of
\* init_scheduler and get_scheduler made one after the other.  None is 0, a
\* scheduler is its position in schedulers.

\* calls in one behaviour
MaxSchedCalls == 4

\* the step of init_scheduler that raises: none, create_scheduler (the job
\* store cannot be set up), register_jobs (its imports, lines 53-54, are
\* outside the try blocks), start_scheduler
InitFaults == {"none", "create", "register", "start"}

\* init_scheduler(), lines 116-133, when the step `fault` raises: the global
\* after the call, the schedulers, the value returned (0 when it raised)
init_scheduler(global, created, fault) ==
    IF global # 0
    THEN [global |-> global, created |-> created, returned |-> global,
          raised |-> FALSE]
    ELSE IF fault = "create"
    THEN [global |-> 0, created |-> created, returned |-> 0, raised |-> TRUE]
    ELSE LET new == Len(created) + 1
         IN [global |-> new,
             created |-> Append(created, [registered |-> fault # "register",
                                          started |-> fault = "none"]),
             returned |-> IF fault = "none" THEN new ELSE 0,
             raised |-> fault # "none"]

\* get_scheduler(), lines 136-143
get_scheduler(global) == global

InitSched ==
    /\ countries = {}
    /\ cities = {}
    /\ nextId = 1
    /\ clock = 0
    /\ is_sqlite = TRUE
    /\ last = [op |-> "none"]
    /\ NoRun

CallInitScheduler ==
    /\ Len(scheduler_calls) < MaxSchedCalls
    /\ \E fault \in InitFaults :
         LET res == init_scheduler(_scheduler, schedulers, fault)
         IN /\ _scheduler' = res.global
            /\ schedulers' = res.created
            /\ scheduler_calls' = Append(scheduler_calls,
                                         [op |-> "init_scheduler",
                                          returned |-> res.returned,
                                          raised |-> res.raised])
    /\ UNCHANGED <<dbVars, last, runVars, idemVars>>

CallGetScheduler ==
    /\ Len(scheduler_calls) < MaxSchedCalls
    /\ scheduler_calls' = Append(scheduler_calls,
                                 [op |-> "get_scheduler",
                                  returned |-> get_scheduler(_scheduler),
                                  raised |-> FALSE])
    /\ UNCHANGED <<dbVars, last, runVars, idemVars, _scheduler, schedulers>>

NextSched ==
    \/ CallInitScheduler
    \/ CallGetScheduler

SpecSched == InitSched /\ [][NextSched]_vars

\* C40 as stated: at most one scheduler is created and at most one started;
\* the calls of init_scheduler that return give the same instance;
\* get_scheduler gives none before the first call of init_scheduler; and a
\* scheduler that get_scheduler gives has its jobs registered and is started.
C40_SchedulerSingleton ==
    /\ Len(schedulers) <= 1
    /\ \A i, j \in 1..Len(scheduler_calls) :
          (/\ scheduler_calls[i].op = "init_scheduler"
           /\ scheduler_calls[j].op = "init_scheduler"
           /\ ~scheduler_calls[i].raised
           /\ ~scheduler_calls[j].raised)
              => scheduler_calls[i].returned = scheduler_calls[j].returned
    /\ \A i \in 1..Len(scheduler_calls) :
          scheduler_calls[i].op = "get_scheduler" =>
              /\ (\A j \in 1..(i - 1) : scheduler_calls[j].op = "get_scheduler")
                    => scheduler_calls[i].returned = 0
              /\ scheduler_calls[i].returned # 0 =>
                    /\ schedulers[scheduler_calls[i].returned].registered
                    /\ schedulers[scheduler_calls[i].returned].started

=============================================================================
